---- MODULE Spec2Model ----
(***************************************************************************)
(* Glow Market Hunter: the search / enrich / dedupe / persist pipeline.    *)
(*                                                                         *)
(* The state machines of this module include:                              *)
(*   SearchSpec  textSearchAll of src/index.js (pagination loop)           *)
(*   MapSpec     mapWithConcurrency of src/unnamed/part_001 (worker pool)  *)
(*   Spec        POST /run-city of src/index.js against one tab            *)
(*   RaceSpec    overlapping POST /run-city requests of src/index.js       *)
(*   DedupSpec   appendRowsDedup of src/unnamed/part_002 and part_005      *)
(*   P5Spec      POST /run-city of src/unnamed/part_005                    *)
(*   ClientSpec  getSheetsClient of src/unnamed/part_003                   *)
(*   LetterSpec  columnLetter (part_001) and colLetter (part_005)          *)
(* Each specification moves its own variables and leaves the others at     *)
(* their idle values.                                                      *)
(***************************************************************************)
EXTENDS Integers, Sequences, FiniteSets, TLC

\* ------------------------------------------------------------------------
\* Bounds of the model
\* ------------------------------------------------------------------------
\* A page cap a caller might hope for; textSearchAll is driven one request
\* further than this to see whether anything stops it.
HardPageCap == 2

MaxRequests == HardPageCap + 1

\* ------------------------------------------------------------------------
\* Strings are sequences of one-character strings, so that trim() is a
\* computation and not the identity.
\* ------------------------------------------------------------------------
EmptyStr == << >>

IsSpace(c) == c = " "

RECURSIVE TrimLeft(_)
TrimLeft(s) == IF s # << >> /\ IsSpace(Head(s)) THEN TrimLeft(Tail(s)) ELSE s

RECURSIVE TrimRight(_)
TrimRight(s) ==
  IF s # << >> /\ IsSpace(s[Len(s)]) THEN TrimRight(SubSeq(s, 1, Len(s) - 1)) ELSE s

\* String.prototype.trim
Trim(s) == TrimRight(TrimLeft(s))

\* JavaScript truthiness of a string value: "" (and a missing value, which
\* the model writes as the empty string) is falsy.
Truthy(s) == s # EmptyStr

\* Provider identifiers: opaque, without surrounding white space.
PlaceIds == { <<"a">>, <<"b">> }

\* r.place_id of a search result: an identifier, or missing/empty.
ResultIds == PlaceIds \cup { EmptyStr }

VARIABLES
  \* ---- textSearchAll ----
  sPc,        \* "idle" | "issue" | "inflight" | "sleep" | "returned" | "threw"
  sHasToken,  \* the url of the next request carries a pagetoken
  sUrlToken,  \* that token ("" for the first request, which carries the query)
  sAll,       \* const all = []
  sRequests,  \* number of fetch(url) calls issued
  sPages,     \* the responses received so far, in order (the provider's behaviour)
  sSent,      \* the tokens the requests carried, in order
  sSleeps     \* number of sleep(2200) waits that have elapsed

searchVars == << sPc, sHasToken, sUrlToken, sAll, sRequests, sPages, sSent, sSleeps >>

VARIABLES
  \* ---- mapWithConcurrency ----
  mPc,        \* "idle" | "called" | "awaiting" | "returned"
  mItems,     \* items
  mLimit,     \* limit
  mIdx,       \* let idx = 0 (shared cursor, 0-based)
  mResults,   \* const results = [] : index -> value, Hole where never assigned
  mWorkers,   \* worker -> [ pc : "await" | "done" | "failed", myIndex ]
  mOutcome,   \* index -> how the mapper call for it ended ("none" before the call)
  mCalls      \* index -> number of mapper calls made for it

mapVars == << mPc, mItems, mLimit, mIdx, mResults, mWorkers, mOutcome, mCalls >>

VARIABLES
  \* ---- POST /run-city and the spreadsheet ----
  env,        \* process.env: which of the three settings are present
  body,       \* req.body of the request (the same body is sent by every run)
  provider,   \* category -> what the text search answers for its query
  tab,        \* the tab named after the city: exists, first row, data rows
  run         \* run -> the request's local state (see RunIdleState)

runVars == << env, body, provider, tab, run >>

VARIABLES
  \* ---- sanitizeSheetTitle under POST /sheets/append (part_002) ----
  tPc,        \* "idle" | "received" | "rejected" | "sanitized"
  tTitle,     \* req.body.title
  tOut        \* sheetTitle

titleVars == << tPc, tTitle, tOut >>

VARIABLES
  \* ---- POST /sheets/append of src/index.js (on the same tab) ----
  aBody,      \* req.body: sheetId and sheetName present or not, rows
  aRun        \* the handler's local state (see AppendIdleState)

appendVars == << aBody, aRun >>

VARIABLES
  \* ---- appendRowsToSheet (part_001) ----
  cPc,        \* "idle" | "loop" | "returned" | "threw"
  cRows,      \* rows: the row objects to append
  cI,         \* let i = 0
  cCalls      \* the values of the append calls that succeeded, in order

chunkVars == << cPc, cRows, cI, cCalls >>

VARIABLES
  \* ---- POST /search-and-append (part_001, version 1.2.0) ----
  saBody,     \* req.body: city and categories; whether the Sheets client is configured
  saAnswers,  \* category -> what the text search answered for it
  saSheet,    \* the tab named after the city: exists, first row, data rows
  saRun       \* the handler's local state (see SaIdleState)

saVars == << saBody, saAnswers, saSheet, saRun >>

VARIABLES
  \* ---- appendRowsDedup (part_005 and part_002) ----
  dVersion,   \* which of the two files the function is taken from
  dRows,      \* rows: the rows handed to the function
  dSheet,     \* the tab: exists, first row, data rows
  dRun        \* the call's local state (see DedupIdleState)

dedupVars == << dVersion, dRows, dSheet, dRun >>

VARIABLES
  \* ---- POST /run-city of part_005 ----
  p5Body,     \* req.body: country, city, categories
  p5Answers,  \* category -> what the text search answered for it
  p5Run       \* the handler's local state (see P5IdleState)

p5Vars == << p5Body, p5Answers, p5Run >>

VARIABLES
  \* ---- getSheetsClient under POST /sheets/append (part_003) ----
  kEnv,           \* SHEET_ID and GOOGLE_SERVICE_ACCOUNT_JSON present or not
  kRows,          \* request -> its body carries rows that are an array
  sheetsClient,   \* let sheetsClient = null (line 176)
  authorizeCalls, \* number of auth.authorize() calls made
  kReq            \* request -> the handler's local state (see ClientIdleState)

clientVars == << kEnv, kRows, sheetsClient, authorizeCalls, kReq >>

VARIABLES
  \* ---- columnLetter (part_001) and colLetter (part_005) ----
  lN,         \* the argument n both are called with
  lPc,        \* "idle" | "called" | "returned"
  l1,         \* columnLetter: its n and s
  l5          \* colLetter: its n and s

letterVars == << lN, lPc, l1, l5 >>

\* the variables of the later versions' machines
laterVars == << dedupVars, p5Vars, clientVars, letterVars >>

\* the helpers' variables, apart from the three machines above
helperVars == << titleVars, appendVars, chunkVars, saVars, laterVars >>

vars == << searchVars, mapVars, runVars, helperVars >>

notSearch == << mapVars, runVars, helperVars >>

notMap == << searchVars, runVars, helperVars >>

notRun == << searchVars, mapVars, helperVars >>

notTitle == << searchVars, mapVars, runVars, appendVars, chunkVars, saVars, laterVars >>

notChunk == << searchVars, mapVars, runVars, titleVars, appendVars, saVars, laterVars >>

notSa == << searchVars, mapVars, runVars, titleVars, appendVars, chunkVars, laterVars >>

\* the variables of the machines of src/index.js and part_001
firstVars == << searchVars, mapVars, runVars, titleVars, appendVars, chunkVars, saVars >>

notDedup == << firstVars, p5Vars, clientVars, letterVars >>

\* what POST /run-city of part_005 leaves alone, apart from the variables of
\* appendRowsDedup, which it calls
notP5 == << firstVars, clientVars, letterVars >>

notClient == << firstVars, dedupVars, p5Vars, letterVars >>

notLetter == << firstVars, dedupVars, p5Vars, clientVars >>

\* what POST /sheets/append leaves alone (it writes the tab)
notAppend == << env, body, provider, run, searchVars, mapVars, titleVars, chunkVars, saVars, laterVars >>

\* ========================================================================
\* mapWithConcurrency (src/unnamed/part_001 544-565, the same text at 181-202)
\* ========================================================================
MaxItems == 3

MaxLimit == 3

ItemValues == { "x", "y" }

ItemLists == UNION { [ 1..n -> ItemValues ] : n \in 0..MaxItems }

\* an array slot that was never assigned
Hole == [ kind |-> "empty" ]

Null == [ kind |-> "null" ]

\* mapper(items[myIndex], myIndex): what a call that resolves resolves to
Mapper(item, index) == [ kind |-> "value", detailsOf |-> item, at |-> index ]

Min(a, b) == IF a <= b THEN a ELSE b

\* Array.prototype.length: one more than the highest assigned index
ArrayLength(arr) ==
  LET used == { i \in DOMAIN arr : arr[i] # Hole }
  IN IF used = {} THEN 0 ELSE 1 + (CHOOSE i \in used : \A j \in used : j <= i)

\* line 559: Array(Math.min(limit, items.length))
WorkerCountUnbounded(limit, items) == limit

WorkerCount(limit, items) == Min(limit, Len(items))

\* line 552 / 554: the slot a worker writes when its mapper call settles
ResultSlotShared(myIndex, idx) == idx - 1

ResultSlot(myIndex, idx) == myIndex

\* lines 551-555: try { ... } catch (e) { results[myIndex] = null }
CatchesMapperErrorNot == FALSE

CatchesMapperError == TRUE

\* line 563: await Promise.all(workers) is over once every worker has ended
PromiseRace(workers) == \E w \in DOMAIN workers : workers[w].pc = "done"

PromiseAllResolved(workers) == \A w \in DOMAIN workers : workers[w].pc = "done"

\* lines 549-552: one turn of a worker's loop up to its await: claim the next
\* index and call the mapper, or leave the loop. st = [ idx, workers, calls,
\* outcome ].
WorkerTurnSkipsOne(st, w, items) ==
  IF st.idx < Len(items)
    THEN [ idx |-> st.idx + 2,
           workers |-> [ st.workers EXCEPT ![w] = [ pc |-> "await", myIndex |-> st.idx ] ],
           calls |-> [ st.calls EXCEPT ![st.idx] = @ + 1 ],
           outcome |-> [ st.outcome EXCEPT ![st.idx] = "pending" ] ]
    ELSE [ st EXCEPT !.workers[w] = [ pc |-> "done", myIndex |-> st.workers[w].myIndex ] ]

WorkerTurn(st, w, items) ==
  IF st.idx < Len(items)
    THEN [ idx |-> st.idx + 1,
           workers |-> [ st.workers EXCEPT ![w] = [ pc |-> "await", myIndex |-> st.idx ] ],
           calls |-> [ st.calls EXCEPT ![st.idx] = @ + 1 ],
           outcome |-> [ st.outcome EXCEPT ![st.idx] = "pending" ] ]
    ELSE [ st EXCEPT !.workers[w] = [ pc |-> "done", myIndex |-> st.workers[w].myIndex ] ]

\* lines 559-561: .map(() => worker()) runs each worker up to its first await
RECURSIVE StartWorkers(_, _, _, _)
StartWorkers(st, w, count, items) ==
  IF w > count THEN st ELSE StartWorkers(WorkerTurn(st, w, items), w + 1, count, items)

MapIdle ==
  /\ mPc = "idle"
  /\ mItems = << >>
  /\ mLimit = 0
  /\ mIdx = 0
  /\ mResults = << >>
  /\ mWorkers = << >>
  /\ mOutcome = << >>
  /\ mCalls = << >>

\* lines 545-546, for every list of items and every positive limit (the
\* callers pass DETAILS_CONCURRENCY = 5, which can exceed the list's length)
MapInit ==
  /\ mPc = "called"
  /\ mItems \in ItemLists
  /\ mLimit \in 1..MaxLimit
  /\ mIdx = 0
  /\ mResults = [ i \in 0..(Len(mItems) - 1) |-> Hole ]
  /\ mWorkers = << >>
  /\ mOutcome = [ i \in 0..(Len(mItems) - 1) |-> "none" ]
  /\ mCalls = [ i \in 0..(Len(mItems) - 1) |-> 0 ]

\* lines 559-563: the workers are created and the call awaits Promise.all
SpawnWorkers ==
  /\ mPc = "called"
  /\ LET count == WorkerCount(mLimit, mItems)
         fresh == [ w \in 1..count |-> [ pc |-> "new", myIndex |-> -1 ] ]
         st == StartWorkers([ idx |-> mIdx, workers |-> fresh, calls |-> mCalls,
                              outcome |-> mOutcome ], 1, count, mItems)
     IN /\ mIdx' = st.idx
        /\ mWorkers' = st.workers
        /\ mCalls' = st.calls
        /\ mOutcome' = st.outcome
  /\ mPc' = "awaiting"
  /\ UNCHANGED << mItems, mLimit, mResults, notMap >>

\* lines 552-556: worker w's mapper call settles; the worker stores the value
\* (or null in the catch) and takes its next turn
MapperSettles(w, how) ==
  /\ mPc \in { "awaiting", "returned" }
  /\ w \in DOMAIN mWorkers
  /\ mWorkers[w].pc = "await"
  /\ LET me == mWorkers[w].myIndex
         slot == ResultSlot(me, mIdx)
         value == IF how = "resolved" THEN Mapper(mItems[me + 1], me) ELSE Null
     IN IF how = "rejected" /\ ~CatchesMapperError
          THEN /\ mWorkers' = [ mWorkers EXCEPT ![w].pc = "failed" ]
               /\ mOutcome' = [ mOutcome EXCEPT ![me] = how ]
               /\ UNCHANGED << mIdx, mResults, mCalls >>
          ELSE LET st == WorkerTurn([ idx |-> mIdx, workers |-> mWorkers,
                                      calls |-> mCalls,
                                      outcome |-> [ mOutcome EXCEPT ![me] = how ] ],
                                    w, mItems)
               IN /\ mResults' = [ mResults EXCEPT ![slot] = value ]
                  /\ mIdx' = st.idx
                  /\ mWorkers' = st.workers
                  /\ mCalls' = st.calls
                  /\ mOutcome' = st.outcome
  /\ UNCHANGED << mPc, mItems, mLimit, notMap >>

\* lines 563-564: Promise.all(workers) resolves and results is returned
MapReturns ==
  /\ mPc = "awaiting"
  /\ PromiseAllResolved(mWorkers)
  /\ mPc' = "returned"
  /\ UNCHANGED << mItems, mLimit, mIdx, mResults, mWorkers, mOutcome, mCalls, notMap >>

MapperResolves(w) == MapperSettles(w, "resolved")

MapperRejects(w) == MapperSettles(w, "rejected")

MapNext ==
  \/ SpawnWorkers
  \/ \E w \in 1..MaxLimit : MapperResolves(w)
  \/ \E w \in 1..MaxLimit : MapperRejects(w)
  \/ MapReturns


\* ========================================================================
\* POST /run-city (src/index.js 190-284) and its Sheets helpers (56-116)
\* ========================================================================
\* at most this many results in all the search answers of one spreadsheet
MaxFound == 2

\* the requests, in the order they arrive: a run and its re-run
Runs == { 1, 2 }

\* line 35: const HEADERS
HEADERS ==
  << "timestamp", "country", "city", "query", "category", "name", "phone",
     "website", "lat", "lng", "address", "place_id", "source" >>

\* line 51: PLACE_ID_COL_A1 = "L", the 12th column
ColumnLetters == << "A", "B", "C", "D", "E", "F", "G", "H", "I", "J", "K", "L", "M" >>

WrongColumnK == "K"

PLACE_ID_COL_A1 == "L"

ColumnNumber(letter) == CHOOSE n \in 1..Len(ColumnLetters) : ColumnLetters[n] = letter

\* a body field that was not sent
Missing == [ sent |-> FALSE, value |-> EmptyStr ]

Sent(v) == [ sent |-> TRUE, value |-> v ]

\* lines 192-198: destructuring defaults, field = "" when undefined
OrDefault(field, default) == IF field.sent THEN field.value ELSE default

\* line 195: the default categories
DefaultCategories == << "barberias", "salones de belleza", "spas" >>

\* the categories a request names explicitly
CategoryNames == { DefaultCategories[k] : k \in 1..Len(DefaultCategories) }

\* the lists of categories a request names: none, one, two, the same twice
CategoryLists ==
  { << >>, << "spas" >>, << "spas", "barberias" >>, << "spas", "spas" >> }

CountryValues == { EmptyStr, << "B" >> }

CityValues == { EmptyStr, << "L" >> }

\* what a text search returns for one query: results by place_id
ResultLists == UNION { [ 1..n -> ResultIds ] : n \in 0..MaxFound }

\* the number of results in the answers the provider has given
RECURSIVE FoundIn(_, _)
FoundIn(prov, names) ==
  IF names = {} THEN 0
  ELSE LET c == CHOOSE x \in names : TRUE
       IN Len(prov[c].results) + FoundIn(prov, names \ { c })

\* a search result r: the fields the row falls back to
SearchRecord(pid) ==
  [ place_id |-> pid, name |-> << "n" >> \o pid, formatted_address |-> << "s" >> \o pid,
    lat |-> << "1" >>, lng |-> << "2" >> ]

\* data.result of Place Details for pid when data.status is OK
DetailsRecord(pid) ==
  [ isNull |-> FALSE, name |-> << "N" >> \o pid, formatted_address |-> << "S" >> \o pid,
    formatted_phone_number |-> << "7" >>, website |-> << "w" >>,
    lat |-> << "3" >>, lng |-> << "4" >> ]

\* line 168: getPlaceDetails returns null when data.status is not OK
NullDetails ==
  [ isNull |-> TRUE, name |-> EmptyStr, formatted_address |-> EmptyStr,
    formatted_phone_number |-> EmptyStr, website |-> EmptyStr,
    lat |-> EmptyStr, lng |-> EmptyStr ]

\* a || b on strings
Or(a, b) == IF Truthy(a) THEN a ELSE b

\* det?.x ?? fallback (the fields of a non-null det are present)
Coalesce(det, x, fallback) == IF det.isNull THEN fallback ELSE x

\* line 223: `${category} ${city} ${country}`
Query(category, city, country) == << category, city, country >>

\* lines 233-254: the row of one accepted result
BuildRowPhoneAfterWebsite(nowISO, country, city, category, r, det) ==
  << nowISO,
     country,
     city,
     Query(category, city, country),
     category,
     Or(det.name, Or(r.name, EmptyStr)),
     Or(det.website, EmptyStr),
     Or(det.formatted_phone_number, EmptyStr),
     Coalesce(det, det.lat, r.lat),
     Coalesce(det, det.lng, r.lng),
     Or(det.formatted_address, Or(r.formatted_address, EmptyStr)),
     r.place_id,
     "Glow Places" >>

BuildRow(nowISO, country, city, category, r, det) ==
  << nowISO,
     country,
     city,
     Query(category, city, country),
     category,
     Or(det.name, Or(r.name, EmptyStr)),
     Or(det.formatted_phone_number, EmptyStr),
     Or(det.website, EmptyStr),
     Coalesce(det, det.lat, r.lat),
     Coalesce(det, det.lng, r.lng),
     Or(det.formatted_address, Or(r.formatted_address, EmptyStr)),
     r.place_id,
     "Glow Places" >>

\* the cell of a row in column n ("" where the row is shorter)
Cell(row, n) == IF n <= Len(row) THEN row[n] ELSE EmptyStr

\* the values of the place_id column of the rows below the header
PlaceIdColumn(rows) == [ k \in 1..Len(rows) |-> Cell(rows[k], ColumnNumber(PLACE_ID_COL_A1)) ]

\* line 99: new Set(rows.map(r => (r[0] || "").trim()).filter(Boolean))
TrimmedIdsUntrimmed(column) ==
  { column[k] : k \in { j \in 1..Len(column) : Truthy(Trim(column[j])) } }

TrimmedIds(column) ==
  { Trim(column[k]) : k \in { j \in 1..Len(column) : Truthy(Trim(column[j])) } }

\* line 229: if (!pid || existingIds.has(pid)) continue;
SkipsNoCheck(pid, existingIds) == ~Truthy(pid)

SkipsInverted(pid, existingIds) == Truthy(pid) \/ pid \in existingIds

Skips(pid, existingIds) == ~Truthy(pid) \/ pid \in existingIds

\* line 256: existingIds.add(pid)
AddSeenForgets(existingIds, pid) == existingIds

AddSeen(existingIds, pid) == existingIds \cup { pid }

\* lines 200-209: the three checks that answer 400, in order
ValidationNoCityCheck(e, b) ==
  IF ~e.apiKey THEN "Falta GOOGLE_API_KEY."
  ELSE IF ~(b.sheetId.sent \/ e.sheetId) THEN "Falta sheetId en body o SHEET_ID en env."
  ELSE IF ~Truthy(OrDefault(b.country, EmptyStr)) THEN "Debes enviar country y city."
  ELSE "ok"

Validation(e, b) ==
  IF ~e.apiKey THEN "Falta GOOGLE_API_KEY."
  ELSE IF ~(b.sheetId.sent \/ e.sheetId) THEN "Falta sheetId en body o SHEET_ID en env."
  ELSE IF ~Truthy(OrDefault(b.country, EmptyStr)) \/ ~Truthy(OrDefault(b.city, EmptyStr))
    THEN "Debes enviar country y city."
  ELSE "ok"

\* line 195: categories, or the three defaults
Categories(b) == IF b.categories.sent THEN b.categories.value ELSE DefaultCategories

\* a row that was in the tab before the first run, with the given L cell
OldRow(cell) ==
  << 0, << "B" >>, << "L" >>, << "old", << "L" >>, << "B" >> >>, "old", EmptyStr, EmptyStr, EmptyStr,
     EmptyStr, EmptyStr, EmptyStr, cell, "Glow Places" >>

\* cells found in column L of a tab: identifiers, an empty cell, and cells
\* with white space around an identifier
TabCells == PlaceIds \cup { EmptyStr, << " ", "a" >> }

OtherHeader == << "fecha" >>

\* the tab before the first run: absent, present with an empty first row, or
\* present with a first row and no or one data row
InitialTabs ==
  { [ exists |-> FALSE, header |-> << >>, rows |-> << >> ],
    [ exists |-> TRUE, header |-> << >>, rows |-> << >> ],
    [ exists |-> TRUE, header |-> HEADERS, rows |-> << >> ],
    [ exists |-> TRUE, header |-> OtherHeader, rows |-> << OldRow(<< "b" >>) >> ] }
  \cup { [ exists |-> TRUE, header |-> HEADERS, rows |-> << OldRow(c) >> ] : c \in TabCells }

RunIdleState ==
  [ pc |-> "idle",            \* "idle" | "ensure" | "read" | "search" | "results" | "append" | "done" | "released"
    nowISO |-> 0,             \* line 216 (the run's number stands for its time)
    existingIds |-> {},       \* line 214
    columnRead |-> << >>,     \* column L as it was when line 214 read it
    readOk |-> FALSE,         \* that read did not throw
    cat |-> 1,                \* position of the for-of over categories
    results |-> << >>,        \* line 224
    res |-> 1,                \* position of the for-of over results
    added |-> 0,              \* line 225
    summary |-> << >>,        \* line 219
    appendedRows |-> << >>,   \* line 220
    calls |-> << >>,          \* the Sheets and Places calls made, in order
    overlapping |-> FALSE,    \* the request arrived while another one was in flight
    response |-> [ code |-> 0 ] ]

RunIdle ==
  /\ env = [ apiKey |-> FALSE, sheetId |-> FALSE, serviceAccount |-> FALSE ]
  /\ body = [ country |-> Missing, city |-> Missing, categories |-> Missing, sheetId |-> Missing ]
  /\ provider = [ c \in CategoryNames |-> [ asked |-> FALSE, results |-> << >> ] ]
  /\ tab = [ exists |-> FALSE, header |-> << >>, rows |-> << >> ]
  /\ run = [ r \in Runs |-> RunIdleState ]

RunInit ==
  /\ env \in [ apiKey : BOOLEAN, sheetId : BOOLEAN, serviceAccount : BOOLEAN ]
  /\ body \in [ country : { Missing } \cup { Sent(v) : v \in CountryValues },
                city : { Missing } \cup { Sent(v) : v \in CityValues },
                categories : { Missing } \cup { Sent(v) : v \in CategoryLists },
                sheetId : { Missing } ]
  /\ provider = [ c \in CategoryNames |-> [ asked |-> FALSE, results |-> << >> ] ]
  /\ tab \in InitialTabs
  /\ run = [ r \in Runs |-> RunIdleState ]

Country == OrDefault(body.country, EmptyStr)

City == OrDefault(body.city, EmptyStr)

\* line 212: const sheetName = city.trim()
SheetName == Trim(City)

\* res.status(code).json({ error })
ErrorResponse(code, message) == [ code |-> code, error |-> message ]

\* lines 280-283: the catch of the handler
Fails(r, calls) ==
  run' = [ run EXCEPT ![r].pc = "done",
                      ![r].calls = calls,
                      ![r].response = ErrorResponse(500, "e.message") ]

\* one request at a time: run r starts when the runs before it are done
Answered(q) == run[q].pc \in { "done", "released" }

MayStart(r) == \A q \in Runs : q < r => Answered(q)

\* the locals of a handler that has returned are gone and its response was
\* sent; what is kept of it is the response's status code
Released(st) ==
  [ RunIdleState EXCEPT !.pc = "released", !.response = [ code |-> st.response.code ] ]

ReleaseOthers(r, rs) == [ q \in Runs |-> IF q # r /\ rs[q].pc = "done" THEN Released(rs[q]) ELSE rs[q] ]

Call(api, arg) == [ api |-> api, arg |-> arg ]

\* the calls ensureSheetAndHeader makes on the tab as it is (lines 57-88)
EnsureCalls(t) ==
  IF ~t.exists
    THEN << Call("spreadsheets.get", "meta"), Call("spreadsheets.batchUpdate", "addSheet"),
            Call("values.update", "A1:M1") >>
  ELSE IF t.header = << >>
    THEN << Call("spreadsheets.get", "meta"), Call("values.get", "A1:M1"),
            Call("values.update", "A1:M1") >>
  ELSE << Call("spreadsheets.get", "meta"), Call("values.get", "A1:M1") >>

\* lines 60-88: the tab after ensureSheetAndHeader
EnsuredTabAlwaysWrites(t) == [ exists |-> TRUE, header |-> HEADERS, rows |-> t.rows ]

EnsuredTab(t) ==
  IF ~t.exists THEN [ exists |-> TRUE, header |-> HEADERS, rows |-> << >> ]
  ELSE IF t.header = << >> THEN [ t EXCEPT !.header = HEADERS ]
  ELSE t

\* lines 61-66 done, lines 68-73 not: the tab was added, its header not written
AddedTab(t) == [ exists |-> TRUE, header |-> << >>, rows |-> << >> ]

\* lines 108-114: values.append with INSERT_ROWS puts the rows below the last row
AppendedTab(t, rows) == [ t EXCEPT !.rows = t.rows \o rows ]

\* where the for-of over categories stands after position cat - 1
AfterCategoryLeavesLoop(cat) == "append"

AfterCategory(cat) == IF cat <= Len(Categories(body)) THEN "search" ELSE "append"

\* lines 190-211: destructuring, the three checks, getSheetsClient
Receive(r) ==
  /\ run[r].pc = "idle"
  /\ MayStart(r)
  /\ LET v == Validation(env, body)
         rs == ReleaseOthers(r, run)
     IN IF v # "ok"
          THEN run' = [ rs EXCEPT ![r].pc = "done", ![r].response = ErrorResponse(400, v) ]
        ELSE IF ~env.serviceAccount
          THEN run' = [ rs EXCEPT ![r].pc = "done",
                                  ![r].response = ErrorResponse(500, "e.message") ]
        ELSE run' = [ rs EXCEPT ![r].pc = "ensure" ]
  /\ UNCHANGED << env, body, provider, tab, notRun >>

\* line 213: ensureSheetAndHeader runs to its end
Ensure(r) ==
  /\ run[r].pc = "ensure"
  /\ tab' = EnsuredTab(tab)
  /\ run' = [ run EXCEPT ![r].pc = "read", ![r].calls = @ \o EnsureCalls(tab) ]
  /\ UNCHANGED << env, body, provider, notRun >>

\* line 213: the k-th call of ensureSheetAndHeader throws
EnsureFails(r, k) ==
  /\ run[r].pc = "ensure"
  /\ k <= Len(EnsureCalls(tab))
  /\ tab' = IF ~tab.exists /\ k = 3 THEN AddedTab(tab) ELSE tab
  /\ Fails(r, run[r].calls \o SubSeq(EnsureCalls(tab), 1, k))
  /\ UNCHANGED << env, body, provider, notRun >>

\* lines 214-220: readExistingPlaceIds returns the ids of column L
ReadIds(r) ==
  /\ run[r].pc = "read"
  /\ run' = [ run EXCEPT ![r].pc = AfterCategory(1),
                         ![r].nowISO = r,
                         ![r].existingIds = TrimmedIds(PlaceIdColumn(tab.rows)),
                         ![r].columnRead = PlaceIdColumn(tab.rows),
                         ![r].readOk = TRUE,
                         ![r].calls = Append(@, Call("values.get", "L2:L")) ]
  /\ UNCHANGED << env, body, provider, tab, notRun >>

\* lines 101-103: values.get throws and readExistingPlaceIds returns new Set()
ReadIdsFails(r) ==
  /\ run[r].pc = "read"
  /\ run' = [ run EXCEPT ![r].pc = AfterCategory(1),
                         ![r].nowISO = r,
                         ![r].existingIds = {},
                         ![r].columnRead = PlaceIdColumn(tab.rows),
                         ![r].readOk = FALSE,
                         ![r].calls = Append(@, Call("values.get", "L2:L")) ]
  /\ UNCHANGED << env, body, provider, tab, notRun >>

\* lines 222-225: textSearchAll returns the results of the category's query
Search(r) ==
  /\ run[r].pc = "search"
  /\ LET category == Categories(body)[run[r].cat] IN
       \E results \in ResultLists :
         /\ provider[category].asked => results = provider[category].results
         /\ ~provider[category].asked =>
              FoundIn(provider, CategoryNames) + Len(results) <= MaxFound
         /\ provider' = [ provider EXCEPT ![category] = [ asked |-> TRUE, results |-> results ] ]
         /\ run' = [ run EXCEPT ![r].pc = "results",
                                ![r].results = results,
                                ![r].res = 1,
                                ![r].added = 0,
                                ![r].calls = Append(@, Call("textsearch", category)) ]
  /\ UNCHANGED << env, body, tab, notRun >>

\* line 224: textSearchAll throws (a request of it was rejected)
SearchFailsAfterFlush(r) ==
  /\ run[r].pc = "search"
  /\ tab' = AppendedTab(tab, run[r].appendedRows)
  /\ Fails(r, Append(run[r].calls, Call("textsearch", Categories(body)[run[r].cat])))
  /\ UNCHANGED << env, body, provider, notRun >>

SearchFails(r) ==
  /\ run[r].pc = "search"
  /\ Fails(r, Append(run[r].calls, Call("textsearch", Categories(body)[run[r].cat])))
  /\ UNCHANGED << env, body, provider, tab, notRun >>

AtResult(r) == run[r].pc = "results" /\ run[r].res <= Len(run[r].results)

\* lines 228-229: continue
SkipResult(r) ==
  /\ AtResult(r)
  /\ Skips(run[r].results[run[r].res], run[r].existingIds)
  /\ run' = [ run EXCEPT ![r].res = @ + 1 ]
  /\ UNCHANGED << env, body, provider, tab, notRun >>

\* lines 232-257: getPlaceDetails answers (a result, or null for a status
\* other than OK); the row is built and pushed, the id remembered
AcceptResult(r, det) ==
  /\ AtResult(r)
  /\ LET pid == run[r].results[run[r].res]
         category == Categories(body)[run[r].cat]
         row == BuildRow(run[r].nowISO, Country, City, category, SearchRecord(pid), det)
     IN /\ ~Skips(pid, run[r].existingIds)
        /\ det \in { DetailsRecord(pid), NullDetails }
        /\ run' = [ run EXCEPT ![r].appendedRows = Append(@, row),
                               ![r].existingIds = AddSeen(@, pid),
                               ![r].added = @ + 1,
                               ![r].res = @ + 1,
                               ![r].calls = Append(@, Call("details", pid)) ]
  /\ UNCHANGED << env, body, provider, tab, notRun >>

DetailsOk(r) == AcceptResult(r, DetailsRecord(run[r].results[run[r].res]))

DetailsNotOk(r) == AcceptResult(r, NullDetails)

\* lines 166-167: the details request is rejected; getPlaceDetails throws
DetailsFails(r) ==
  /\ AtResult(r)
  /\ ~Skips(run[r].results[run[r].res], run[r].existingIds)
  /\ Fails(r, Append(run[r].calls, Call("details", run[r].results[run[r].res])))
  /\ UNCHANGED << env, body, provider, tab, notRun >>

\* lines 260-264: summary.push({ category, found, added })
SummaryEntry(category, results, added) ==
  [ category |-> category, found |-> Len(results), added |-> added ]

EndCategory(r) ==
  /\ run[r].pc = "results"
  /\ run[r].res > Len(run[r].results)
  /\ run' = [ run EXCEPT ![r].summary =
                           Append(@, SummaryEntry(Categories(body)[run[r].cat],
                                                  run[r].results, run[r].added)),
                         ![r].cat = @ + 1,
                         ![r].pc = AfterCategory(run[r].cat + 1) ]
  /\ UNCHANGED << env, body, provider, tab, notRun >>

\* lines 271-279: the response of a run that reached its end
OkResponse(r) ==
  [ code |-> 200,
    status |-> "ok",
    sheetId |-> IF body.sheetId.sent THEN "body.sheetId" ELSE "SHEET_ID",
    sheetName |-> SheetName,
    total_appended |-> Len(run[r].appendedRows),
    per_category |-> run[r].summary,
    note |-> "Deduplicado por place_id." ]

\* lines 267-279: one append call when rows were accumulated, then the response
Persist(r) ==
  /\ run[r].pc = "append"
  /\ IF run[r].appendedRows # << >>
       THEN /\ tab' = AppendedTab(tab, run[r].appendedRows)
            /\ run' = [ run EXCEPT ![r].pc = "done",
                                   ![r].calls = Append(@, Call("values.append", "A1")),
                                   ![r].response = OkResponse(r) ]
       ELSE /\ tab' = tab
            /\ run' = [ run EXCEPT ![r].pc = "done", ![r].response = OkResponse(r) ]
  /\ UNCHANGED << env, body, provider, notRun >>

\* line 268: values.append throws
AppendFails(r) ==
  /\ run[r].pc = "append"
  /\ run[r].appendedRows # << >>
  /\ Fails(r, Append(run[r].calls, Call("values.append", "A1")))
  /\ UNCHANGED << env, body, provider, tab, notRun >>

\* a request whose handler has started and has not answered
InFlightRun(q) == run[q].pc \notin { "idle", "done", "released" }

\* lines 190-211 when requests are not kept apart: express starts the handler
\* of a request when it arrives, whatever the other handlers are awaiting
ReceiveAnytime(r) ==
  /\ run[r].pc = "idle"
  /\ LET v == Validation(env, body)
         rs == [ run EXCEPT ![r].overlapping = \E q \in Runs \ { r } : InFlightRun(q) ]
     IN IF v # "ok"
          THEN run' = [ rs EXCEPT ![r].pc = "done", ![r].response = ErrorResponse(400, v) ]
        ELSE IF ~env.serviceAccount
          THEN run' = [ rs EXCEPT ![r].pc = "done",
                                  ![r].response = ErrorResponse(500, "e.message") ]
        ELSE run' = [ rs EXCEPT ![r].pc = "ensure" ]
  /\ UNCHANGED << env, body, provider, tab, notRun >>

\* the tab before the overlapping requests: absent, with its header only, or
\* with one row
RaceTabs ==
  { [ exists |-> FALSE, header |-> << >>, rows |-> << >> ],
    [ exists |-> TRUE, header |-> HEADERS, rows |-> << >> ],
    [ exists |-> TRUE, header |-> HEADERS, rows |-> << OldRow(<< " ", "a" >>) >> ] }

\* the requests of the overlapping runs: every setting is present, country
\* and city are sent, one category is asked for
RaceInit ==
  /\ env = [ apiKey |-> TRUE, sheetId |-> TRUE, serviceAccount |-> TRUE ]
  /\ body = [ country |-> Sent(<< "B" >>), city |-> Sent(<< "L" >>),
              categories |-> Sent(<< "spas" >>), sheetId |-> Missing ]
  /\ provider = [ c \in CategoryNames |-> [ asked |-> FALSE, results |-> << >> ] ]
  /\ tab \in RaceTabs
  /\ run = [ r \in Runs |-> RunIdleState ]

RaceNext ==
  \/ \E r \in Runs : ReceiveAnytime(r)
  \/ \E r \in Runs : Ensure(r)
  \/ \E r \in Runs : \E k \in 1..3 : EnsureFails(r, k)
  \/ \E r \in Runs : ReadIds(r)
  \/ \E r \in Runs : ReadIdsFails(r)
  \/ \E r \in Runs : Search(r)
  \/ \E r \in Runs : SearchFails(r)
  \/ \E r \in Runs : SkipResult(r)
  \/ \E r \in Runs : DetailsOk(r)
  \/ \E r \in Runs : DetailsNotOk(r)
  \/ \E r \in Runs : DetailsFails(r)
  \/ \E r \in Runs : EndCategory(r)
  \/ \E r \in Runs : Persist(r)
  \/ \E r \in Runs : AppendFails(r)

RunNext ==
  \/ \E r \in Runs : Receive(r)
  \/ \E r \in Runs : Ensure(r)
  \/ \E r \in Runs : \E k \in 1..3 : EnsureFails(r, k)
  \/ \E r \in Runs : ReadIds(r)
  \/ \E r \in Runs : ReadIdsFails(r)
  \/ \E r \in Runs : Search(r)
  \/ \E r \in Runs : SearchFails(r)
  \/ \E r \in Runs : SkipResult(r)
  \/ \E r \in Runs : DetailsOk(r)
  \/ \E r \in Runs : DetailsNotOk(r)
  \/ \E r \in Runs : DetailsFails(r)
  \/ \E r \in Runs : EndCategory(r)
  \/ \E r \in Runs : Persist(r)
  \/ \E r \in Runs : AppendFails(r)


\* ========================================================================
\* textSearchAll (src/index.js 124-148)
\* ========================================================================
Statuses == { "OK", "ZERO_RESULTS", "OVER_QUERY_LIMIT", "REQUEST_DENIED" }

Tokens == { "t1", "t2" }

NoToken == ""

\* data.results of one page, when present: a list of results (by place_id)
PageResults == { << >>, << <<"a">> >>, << <<"b">>, <<"a">> >> }

\* What one page request can come back with; hasResults is FALSE when the
\* body has no results field.
PageResponses ==
  [ status : Statuses, hasResults : { TRUE }, results : PageResults,
    next_page_token : Tokens \cup { NoToken } ]
  \cup
  [ status : Statuses, hasResults : { FALSE }, results : { << >> },
    next_page_token : Tokens \cup { NoToken } ]

\* data.results || []
ResultsOrEmpty(data) == IF data.hasResults THEN data.results ELSE << >>

\* line 141: all.push(...(data.results || []))
PushAllBroken(all, data) == ResultsOrEmpty(data)

PushAll(all, data) == all \o ResultsOrEmpty(data)

\* line 138: the status test; its only effect is a console.error
StatusLogged(data) == data.status # "OK" /\ data.status # "ZERO_RESULTS"

\* lines 138-140: what the status test does to the call
FailsOnStatusStrict(data) == StatusLogged(data)

FailsOnStatus(data) == FALSE

\* line 142: if (!data.next_page_token) break;
BreaksCapped(data, requests) ==
  data.next_page_token = NoToken \/ requests >= HardPageCap

Breaks(data, requests) == data.next_page_token = NoToken

\* lines 142-144: after the push the loop is left, or sleep(2200) is awaited
AfterPushNoSleep(data, requests) == IF Breaks(data, requests) THEN "returned" ELSE "issue"

AfterPush(data, requests) == IF Breaks(data, requests) THEN "returned" ELSE "sleep"

SearchIdle ==
  /\ sPc = "idle"
  /\ sHasToken = FALSE
  /\ sUrlToken = NoToken
  /\ sAll = << >>
  /\ sRequests = 0
  /\ sPages = << >>
  /\ sSent = << >>
  /\ sSleeps = 0

\* lines 125-133: the first url carries the query, no pagetoken
SearchInit ==
  /\ sPc = "issue"
  /\ sHasToken = FALSE
  /\ sUrlToken = NoToken
  /\ sAll = << >>
  /\ sRequests = 0
  /\ sPages = << >>
  /\ sSent = << >>
  /\ sSleeps = 0

\* line 136: fetch(url) is issued
IssueRequest ==
  /\ sPc = "issue"
  /\ sRequests < MaxRequests
  /\ sPc' = "inflight"
  /\ sRequests' = sRequests + 1
  /\ sSent' = Append(sSent, sUrlToken)
  /\ UNCHANGED << sHasToken, sUrlToken, sAll, sPages, sSleeps, notSearch >>

\* lines 136-145: the response arrives; status test, push, break or sleep
ReceivePage ==
  /\ sPc = "inflight"
  /\ \E data \in PageResponses :
       /\ sPages' = Append(sPages, data)
       /\ IF FailsOnStatus(data)
            THEN /\ sPc' = "threw"
                 /\ UNCHANGED sAll
            ELSE /\ sAll' = PushAll(sAll, data)
                 /\ sPc' = AfterPush(data, sRequests)
  /\ UNCHANGED << sHasToken, sUrlToken, sRequests, sSent, sSleeps, notSearch >>

\* lines 136-137: fetch or r.json() rejects; nothing catches it in textSearchAll
FetchRejects ==
  /\ sPc = "inflight"
  /\ sPc' = "threw"
  /\ UNCHANGED << sHasToken, sUrlToken, sAll, sRequests, sPages, sSent, sSleeps, notSearch >>

\* lines 144-145: sleep(2200) is over; the next url carries the page's token
SleepElapsed ==
  /\ sPc = "sleep"
  /\ sPc' = "issue"
  /\ sHasToken' = TRUE
  /\ sUrlToken' = sPages[Len(sPages)].next_page_token
  /\ sSleeps' = sSleeps + 1
  /\ UNCHANGED << sAll, sRequests, sPages, sSent, notSearch >>

SearchNext ==
  \/ IssueRequest
  \/ ReceivePage
  \/ FetchRejects
  \/ SleepElapsed


\* ========================================================================
\* POST /sheets/append (src/index.js 305-336)
\* ========================================================================
\* at most this many rows in the body of a request
MaxObjects == 2

\* the keys an object of rows can have: all of HEADERS, all but phone, all
\* but place_id
HeaderNames == { HEADERS[k] : k \in 1..Len(HEADERS) }

KeySets == { HeaderNames, HeaderNames \ { "phone" }, HeaderNames \ { "place_id" } }

\* o.place_id as sent: empty, an identifier, an identifier after a space
SentPlaceIds == { EmptyStr, << "a" >>, << " ", "a" >> }

\* an object of rows: every key carries a value that names it
ObjectOf(pid, keys) ==
  [ h \in keys |-> IF h = "place_id" THEN pid ELSE << "=", h >> ]

Objects == { ObjectOf(pid, keys) : pid \in SentPlaceIds, keys \in KeySets }

ObjectLists == UNION { [ 1..n -> Objects ] : n \in 1..MaxObjects }

\* rows as sent: missing (or not an array, or empty), objects, or arrays
\* that are already ordered
RowsSent ==
  { [ kind |-> "none", objects |-> << >>, arrays |-> << >> ],
    [ kind |-> "arrays", objects |-> << >>, arrays |-> << << << "x" >>, << "y" >> >> >> ] }
  \cup { [ kind |-> "objects", objects |-> os, arrays |-> << >> ] : os \in ObjectLists }

\* the tab before the request
AppendTabs ==
  { [ exists |-> FALSE, header |-> << >>, rows |-> << >> ],
    [ exists |-> TRUE, header |-> HEADERS, rows |-> << OldRow(<< " ", "a" >>) >> ] }

\* o[h] ?? ""
FieldOr(o, h) == IF h \in DOMAIN o THEN o[h] ELSE EmptyStr

\* line 322: HEADERS.map(h => o[h] ?? "")
ObjectRowByKeys(o) ==
  LET present == SelectSeq(HEADERS, LAMBDA h : h \in DOMAIN o)
  IN [ i \in 1..Len(present) |-> o[present[i]] ]

ObjectRow(o) == [ i \in 1..Len(HEADERS) |-> FieldOr(o, HEADERS[i]) ]

\* lines 319-324: the loop over the objects; st = [ values, existingIds ]
RECURSIVE ObjectsToValues(_, _, _)
ObjectsToValues(os, k, st) ==
  IF k > Len(os) THEN st
  ELSE LET pid == Trim(Or(FieldOr(os[k], "place_id"), EmptyStr))
       IN IF Skips(pid, st.existingIds)
            THEN ObjectsToValues(os, k + 1, st)
            ELSE ObjectsToValues(os, k + 1,
                   [ values |-> Append(st.values, ObjectRow(os[k])),
                     existingIds |-> AddSeen(st.existingIds, pid) ])

\* lines 316-328
ValuesOf(rows, existingIds) ==
  IF rows.kind = "objects"
    THEN ObjectsToValues(rows.objects, 1, [ values |-> << >>, existingIds |-> existingIds ]).values
  ELSE IF rows.kind = "arrays" THEN rows.arrays
  ELSE << >>

AppendIdleState ==
  [ pc |-> "idle",            \* "idle" | "ensure" | "read" | "build" | "append" | "done"
    existingIds |-> {},       \* line 313
    values |-> << >>,         \* line 316
    calls |-> << >>,          \* the Sheets calls made, in order
    response |-> [ code |-> 0 ] ]

AppendIdle ==
  /\ aBody = [ sheetId |-> FALSE, sheetName |-> FALSE,
               rows |-> [ kind |-> "none", objects |-> << >>, arrays |-> << >> ] ]
  /\ aRun = AppendIdleState

\* a request to POST /sheets/append arrives; no request to POST /run-city
\* carries a body
AppendInit ==
  /\ aBody \in [ sheetId : BOOLEAN, sheetName : BOOLEAN, rows : RowsSent ]
  /\ aRun = [ AppendIdleState EXCEPT !.pc = "received" ]
  /\ env \in [ apiKey : { FALSE }, sheetId : { FALSE }, serviceAccount : BOOLEAN ]
  /\ body = [ country |-> Missing, city |-> Missing, categories |-> Missing, sheetId |-> Missing ]
  /\ provider = [ c \in CategoryNames |-> [ asked |-> FALSE, results |-> << >> ] ]
  /\ tab \in AppendTabs
  /\ run = [ r \in Runs |-> RunIdleState ]

\* lines 332-335: the catch of the handler
AppendHandlerFails(calls) ==
  aRun' = [ aRun EXCEPT !.pc = "done", !.calls = calls,
                        !.response = ErrorResponse(500, "Error en sheets/append") ]

\* lines 307-311: the check of sheetId and sheetName, getSheetsClient
AppendReceive ==
  /\ aRun.pc = "received"
  /\ IF ~aBody.sheetId \/ ~aBody.sheetName
       THEN aRun' = [ aRun EXCEPT !.pc = "done",
                                  !.response = ErrorResponse(400, "Falta sheetId o sheetName.") ]
     ELSE IF ~env.serviceAccount THEN AppendHandlerFails(aRun.calls)
     ELSE aRun' = [ aRun EXCEPT !.pc = "ensure" ]
  /\ UNCHANGED << aBody, tab, notAppend >>

\* line 312
AppendEnsure ==
  /\ aRun.pc = "ensure"
  /\ tab' = EnsuredTab(tab)
  /\ aRun' = [ aRun EXCEPT !.pc = "read", !.calls = @ \o EnsureCalls(tab) ]
  /\ UNCHANGED << aBody, notAppend >>

\* line 312: the k-th call of ensureSheetAndHeader throws
AppendEnsureFails(k) ==
  /\ aRun.pc = "ensure"
  /\ k <= Len(EnsureCalls(tab))
  /\ tab' = IF ~tab.exists /\ k = 3 THEN AddedTab(tab) ELSE tab
  /\ AppendHandlerFails(aRun.calls \o SubSeq(EnsureCalls(tab), 1, k))
  /\ UNCHANGED << aBody, notAppend >>

\* lines 313-328: readExistingPlaceIds (an empty set when its call throws),
\* then the rows are turned into values
AppendBuild(readOk) ==
  /\ aRun.pc = "read"
  /\ LET ids == IF readOk THEN TrimmedIds(PlaceIdColumn(tab.rows)) ELSE {}
     IN aRun' = [ aRun EXCEPT !.pc = "append",
                              !.existingIds = ids,
                              !.values = ValuesOf(aBody.rows, ids),
                              !.calls = Append(@, Call("values.get", "L2:L")) ]
  /\ UNCHANGED << aBody, tab, notAppend >>

AppendBuildRead == AppendBuild(TRUE)

AppendBuildUnread == AppendBuild(FALSE)

\* lines 330-331: appendRows (no call for no rows) and the response
AppendPersist ==
  /\ aRun.pc = "append"
  /\ IF aRun.values # << >>
       THEN /\ tab' = AppendedTab(tab, aRun.values)
            /\ aRun' = [ aRun EXCEPT !.pc = "done",
                                     !.calls = Append(@, Call("values.append", "A1")),
                                     !.response = [ code |-> 200, status |-> "ok",
                                                    appended |-> Len(aRun.values) ] ]
       ELSE /\ tab' = tab
            /\ aRun' = [ aRun EXCEPT !.pc = "done",
                                     !.response = [ code |-> 200, status |-> "ok",
                                                    appended |-> 0 ] ]
  /\ UNCHANGED << aBody, notAppend >>

\* line 330: values.append throws
AppendPersistFails ==
  /\ aRun.pc = "append"
  /\ aRun.values # << >>
  /\ AppendHandlerFails(Append(aRun.calls, Call("values.append", "A1")))
  /\ UNCHANGED << aBody, tab, notAppend >>

AppendNext ==
  \/ AppendReceive
  \/ AppendEnsure
  \/ \E k \in 1..3 : AppendEnsureFails(k)
  \/ AppendBuildRead
  \/ AppendBuildUnread
  \/ AppendPersist
  \/ AppendPersistFails

\* ========================================================================
\* sanitizeSheetTitle (src/unnamed/part_002 62-65) as POST /sheets/append
\* calls it (427-439)
\* ========================================================================
\* substring(0, 90)
TitleCap == 90

\* the longest text put before and after the padding of a title
MaxAffix == 1

\* Sheets no permite: : \ / ? * [ ]
Forbidden == { ":", "\\", "/", "?", "*", "[", "]" }

TitleChars == Forbidden \cup { "a", " " }

Affixes == UNION { [ 1..n -> TitleChars ] : n \in 0..MaxAffix }

PadChars == { "a", " " }

PadLengths == { 0, TitleCap - 1, TitleCap, TitleCap + 1 }

Repeat(c, n) == [ i \in 1..n |-> c ]

\* titles a request can carry: short ones, and ones around the cap
Titles ==
  { pre \o Repeat(c, n) \o post :
      pre \in Affixes, post \in Affixes, c \in PadChars, n \in PadLengths }

\* .replace(/[:\\/?*\[\]]/g, "-")
ReplaceForbiddenKeepsBracket(s) ==
  [ i \in 1..Len(s) |-> IF s[i] \in Forbidden \ { "]" } THEN "-" ELSE s[i] ]

ReplaceForbidden(s) == [ i \in 1..Len(s) |-> IF s[i] \in Forbidden THEN "-" ELSE s[i] ]

\* .substring(0, n)
Substring0(s, n) == SubSeq(s, 1, Min(n, Len(s)))

\* line 64
sanitizeSheetTitle(title) == Trim(Substring0(ReplaceForbidden(title), TitleCap))

TitleIdle ==
  /\ tPc = "idle"
  /\ tTitle = EmptyStr
  /\ tOut = EmptyStr

\* line 427: a request arrives with its title
TitleInit ==
  /\ tPc = "received"
  /\ tTitle \in Titles
  /\ tOut = EmptyStr

\* line 428: if (!title) return res.status(400)
TitleRejected ==
  /\ tPc = "received"
  /\ ~Truthy(tTitle)
  /\ tPc' = "rejected"
  /\ UNCHANGED << tTitle, tOut, notTitle >>

\* line 439: const sheetTitle = sanitizeSheetTitle(title)
TitleSanitized ==
  /\ tPc = "received"
  /\ Truthy(tTitle)
  /\ tOut' = sanitizeSheetTitle(tTitle)
  /\ tPc' = "sanitized"
  /\ UNCHANGED << tTitle, notTitle >>

TitleNext ==
  \/ TitleRejected
  \/ TitleSanitized


\* ========================================================================
\* appendRowsToSheet (src/unnamed/part_001 451-463)
\* ========================================================================
\* line 380
SHEETS_APPEND_CHUNK == 300

\* the lists of rows fill at most this many chunks, and one row more
MaxChunks == 2

MaxRows == MaxChunks * SHEETS_APPEND_CHUNK + 1

\* lines 382-395
SHEET_HEADERS ==
  << "timestamp", "country", "city", "category", "name", "phone", "website",
     "lat", "lng", "address", "place_id", "source" >>

SheetHeaderNames == { SHEET_HEADERS[k] : k \in 1..Len(SHEET_HEADERS) }

\* the lengths of the lists: around every multiple of the chunk size
RowCounts ==
  { n \in { q * SHEETS_APPEND_CHUNK + d : q \in 0..MaxChunks, d \in { -1, 0, 1 } } :
      n >= 0 /\ n <= MaxRows }

\* the k-th row object of a list: every key carries a value that names the
\* key and the row; the even rows of a list lack the key dropped
RowObject(k, dropped) ==
  [ h \in IF k % 2 = 0 THEN SheetHeaderNames \ { dropped } ELSE SheetHeaderNames
      |-> << h, k >> ]

RowObjects(n, dropped) == [ k \in 1..n |-> RowObject(k, dropped) ]

\* line 454: SHEET_HEADERS.map((h) => r[h] ?? "")
SerializeRow(r) == [ j \in 1..Len(SHEET_HEADERS) |-> FieldOr(r, SHEET_HEADERS[j]) ]

\* line 453: rows.slice(i, i + SHEETS_APPEND_CHUNK)
ChunkSliceInclusive(rows, i) ==
  SubSeq(rows, i + 1, Min(i + SHEETS_APPEND_CHUNK + 1, Len(rows)))

ChunkSlice(rows, i) == SubSeq(rows, i + 1, Min(i + SHEETS_APPEND_CHUNK, Len(rows)))

\* line 454: chunk.map(...)
ChunkValues(chunk) == [ k \in 1..Len(chunk) |-> SerializeRow(chunk[k]) ]

ChunkIdle ==
  /\ cPc = "idle"
  /\ cRows = << >>
  /\ cI = 0
  /\ cCalls = << >>

\* line 451-452: called with a list of rows; let i = 0
ChunkInit ==
  /\ cPc = "loop"
  /\ \E n \in RowCounts : \E dropped \in SheetHeaderNames \cup { "none" } :
       cRows = RowObjects(n, dropped)
  /\ cI = 0
  /\ cCalls = << >>

\* lines 452-461: one turn of the loop, the append call succeeds
ChunkAppended ==
  /\ cPc = "loop"
  /\ cI < Len(cRows)
  /\ cCalls' = Append(cCalls, ChunkValues(ChunkSlice(cRows, cI)))
  /\ cI' = cI + SHEETS_APPEND_CHUNK
  /\ UNCHANGED << cPc, cRows, notChunk >>

\* lines 455-461: the append call throws; nothing catches it here
ChunkAppendThrows ==
  /\ cPc = "loop"
  /\ cI < Len(cRows)
  /\ cPc' = "threw"
  /\ UNCHANGED << cRows, cI, cCalls, notChunk >>

\* line 452: i < rows.length is false; the function returns
ChunkReturns ==
  /\ cPc = "loop"
  /\ ~(cI < Len(cRows))
  /\ cPc' = "returned"
  /\ UNCHANGED << cRows, cI, cCalls, notChunk >>

ChunkNext ==
  \/ ChunkAppended
  \/ ChunkAppendThrows
  \/ ChunkReturns


\* ========================================================================
\* POST /search-and-append (src/unnamed/part_001 610-726, version 1.2.0)
\* ========================================================================
\* at most this many results in all the search answers of one request
MaxCandidates == 2

NA == << "N", "/", "A" >>

\* String.prototype.toLowerCase on the characters used
UpperLetters == << "A", "Á", "L", "N", "X", "Y" >>

LowerLetters == << "a", "á", "l", "n", "x", "y" >>

LowerChar(c) ==
  IF \E n \in 1..Len(UpperLetters) : UpperLetters[n] = c
    THEN LowerLetters[CHOOSE n \in 1..Len(UpperLetters) : UpperLetters[n] = c]
    ELSE c

\* .normalize("NFD").replace(/[\u0300-\u036f]/g, ""): the base letter
StripMark(c) == IF c = "á" THEN "a" ELSE IF c = "Á" THEN "A" ELSE c

\* .replace(/\s+/g, " ")
RECURSIVE CollapseSpaces(_)
CollapseSpaces(s) ==
  IF Len(s) < 2 THEN s
  ELSE IF IsSpace(s[1]) /\ IsSpace(s[2]) THEN CollapseSpaces(Tail(s))
  ELSE << s[1] >> \o CollapseSpaces(Tail(s))

\* lines 570-577
normalizeKey(str) ==
  Trim(CollapseSpaces([ i \in 1..Len(str) |-> StripMark(LowerChar(str[i])) ]))

\* a place_id field: absent, or present with a value
NoId == [ has |-> FALSE, value |-> EmptyStr ]

Id(v) == [ has |-> TRUE, value |-> v ]

\* a search result: place_id, name, formatted_address
Item(pid, name, address) == [ place_id |-> pid, name |-> name, formatted_address |-> address ]

\* the results a text search can return
Items ==
  { Item(Id(EmptyStr), << "A", "l" >>, << "X" >>),
    Item(Id(EmptyStr), << " ", "á", "l" >>, << "x", " " >>),
    Item(Id(EmptyStr), << "A", "l" >>, << "Y" >>),
    Item(NoId, << "A", "l" >>, << "X" >>),
    Item(NoId, << "b" >>, << "Y" >>),
    Item(Id(<< "a" >>), << "A", "l" >>, << "X" >>),
    Item(Id(<< "b" >>), << "A", "l" >>, << "X" >>) }

ItemLists2 == UNION { [ 1..n -> Items ] : n \in 0..MaxCandidates }

SaCategories == { "c1", "c2" }

\* the bodies: no city, no categories, one category, two categories
SaBodies ==
  { [ city |-> EmptyStr, cats |-> << "c1" >> ],
    [ city |-> << "L" >>, cats |-> << >> ],
    [ city |-> << "L" >>, cats |-> << "c1" >> ],
    [ city |-> << "L" >>, cats |-> << "c1", "c2" >> ] }

\* lines 512-532: data.result for a place the Details API knows
SaDetails(item) ==
  [ isNull |-> FALSE, name |-> item.name, formatted_address |-> item.formatted_address,
    formatted_phone_number |-> << "7" >>, website |-> << "w" >>, place_id |-> item.place_id.value ]

SaNoDetails ==
  [ isNull |-> TRUE, name |-> EmptyStr, formatted_address |-> EmptyStr,
    formatted_phone_number |-> EmptyStr, website |-> EmptyStr, place_id |-> EmptyStr ]

\* what fetchPlaceDetails(item.place_id).catch(() => null) can give: the Details
\* API has no result for an empty or missing place_id
DetailsChoices(item) ==
  IF item.place_id.has /\ Truthy(item.place_id.value)
    THEN { SaDetails(item), SaNoDetails }
    ELSE { SaNoDetails }

\* lines 651-661: the candidate the mapper returns
Candidate(item, details) ==
  [ name |-> IF details.isNull THEN item.name ELSE details.name,
    address |-> IF details.isNull THEN item.formatted_address ELSE details.formatted_address,
    phone |-> IF details.isNull THEN NA ELSE details.formatted_phone_number,
    website |-> IF details.isNull THEN NA ELSE details.website,
    place_id |-> IF ~details.isNull THEN details.place_id
                 ELSE IF item.place_id.has THEN item.place_id.value ELSE NA ]

\* line 675: (p.place_id || "").trim()
CandidatePid(p) == Trim(Or(p.place_id, EmptyStr))

\* lines 684-686: pid || `fallback:${normalizeKey(p.name)}|${normalizeKey(p.address)}`
FallKeyNameOnly(p) ==
  IF Truthy(CandidatePid(p)) THEN << "id", CandidatePid(p) >>
  ELSE << "fallback", normalizeKey(p.name), << >> >>

FallKey(p) ==
  IF Truthy(CandidatePid(p)) THEN << "id", CandidatePid(p) >>
  ELSE << "fallback", normalizeKey(p.name), normalizeKey(p.address) >>

\* lines 579-594
buildRow(timestamp, country, cityOnly, cat, p) ==
  [ h \in SheetHeaderNames |->
      CASE h = "timestamp" -> timestamp
        [] h = "country" -> country
        [] h = "city" -> cityOnly
        [] h = "category" -> cat
        [] h = "name" -> Or(p.name, NA)
        [] h = "phone" -> Or(p.phone, NA)
        [] h = "website" -> Or(p.website, NA)
        [] h = "lat" -> EmptyStr
        [] h = "lng" -> EmptyStr
        [] h = "address" -> Or(p.address, NA)
        [] h = "place_id" -> Or(p.place_id, NA)
        [] h = "source" -> "Glow Places" ]

\* line 697: if (pid) existingPlaceIds.add(pid), the set kept for the next categories
RememberIdForgets(existing, pid) == existing

RememberId(existing, pid) == IF Truthy(pid) THEN existing \cup { pid } ELSE existing

\* lines 668-698: the loop over detailed; st = [ seenBatch, existing, rows,
\* inserted (the positions inserted), skippedExisting, skippedBatchDup ]
RECURSIVE DedupeBatch(_, _, _, _)
DedupeBatch(detailed, k, st, mk) ==
  IF k > Len(detailed) THEN st
  ELSE LET cand == detailed[k]
           pid == CandidatePid(cand)
       IN IF Truthy(pid) /\ pid \in st.existing
            THEN DedupeBatch(detailed, k + 1,
                             [ st EXCEPT !.skippedExisting = @ + 1 ], mk)
          ELSE IF FallKey(cand) \in st.seenBatch
            THEN DedupeBatch(detailed, k + 1,
                             [ st EXCEPT !.skippedBatchDup = @ + 1 ], mk)
          ELSE DedupeBatch(detailed, k + 1,
                 [ st EXCEPT !.seenBatch = @ \cup { FallKey(cand) },
                             !.rows = Append(@, buildRow(mk.timestamp, mk.country,
                                                         mk.city, mk.cat, cand)),
                             !.inserted = @ \cup { k },
                             !.existing = RememberId(@, pid) ], mk)

\* the tab after ensureCitySheet (lines 414-434): created when absent, the
\* header always written
SaEnsuredSheet(t) ==
  IF ~t.exists THEN [ exists |-> TRUE, header |-> SHEET_HEADERS, rows |-> << >> ]
  ELSE [ t EXCEPT !.header = SHEET_HEADERS ]

SaEnsureCalls(t) ==
  IF ~t.exists
    THEN << Call("spreadsheets.get", "meta"), Call("spreadsheets.batchUpdate", "addSheet"),
            Call("values.update", "A1:L1") >>
    ELSE << Call("spreadsheets.get", "meta"), Call("values.update", "A1:L1") >>

\* lines 437-449: the trimmed non-empty cells of the place_id column
SaPlaceIdColumn(rows) ==
  LET col == CHOOSE n \in 1..Len(SHEET_HEADERS) : SHEET_HEADERS[n] = "place_id"
  IN [ k \in 1..Len(rows) |-> Cell(rows[k], col) ]

\* a row that was in the tab before the request
SaOldRow(pid) ==
  SerializeRow(buildRow(0, EmptyStr, << "L" >>, "old",
                        [ name |-> << "o" >>, address |-> << "o" >>, phone |-> NA,
                          website |-> NA, place_id |-> pid ]))

SaInitialSheets ==
  { [ exists |-> FALSE, header |-> << >>, rows |-> << >> ],
    [ exists |-> TRUE, header |-> SHEET_HEADERS, rows |-> << >> ],
    [ exists |-> TRUE, header |-> SHEET_HEADERS, rows |-> << SaOldRow(<< "a" >>) >> ] }

SaIdleState ==
  [ pc |-> "idle",           \* "idle" | "received" | "ensure" | "read" | "search" | "details" | "dedupe" | "done"
    existing |-> {},         \* existingPlaceIds (line 630)
    cat |-> 1,               \* position of the for-of over cats
    allBase |-> << >>,       \* line 644
    detailed |-> << >>,      \* line 646
    totalInserted |-> 0,     \* line 639
    byCategory |-> << >>,    \* line 640
    batches |-> << >>,       \* per category handled: allBase, detailed, the positions inserted, the ids known before
    calls |-> << >>,         \* the Sheets and Places calls made, in order
    response |-> [ code |-> 0 ] ]

SaIdle ==
  /\ saBody = [ city |-> EmptyStr, cats |-> << >>, configured |-> FALSE ]
  /\ saAnswers = [ c \in SaCategories |-> [ asked |-> FALSE, results |-> << >> ] ]
  /\ saSheet = [ exists |-> FALSE, header |-> << >>, rows |-> << >> ]
  /\ saRun = SaIdleState

\* line 612: a request arrives
SaInit ==
  /\ \E b \in SaBodies : \E configured \in BOOLEAN :
       saBody = [ city |-> b.city, cats |-> b.cats, configured |-> configured ]
  /\ saAnswers = [ c \in SaCategories |-> [ asked |-> FALSE, results |-> << >> ] ]
  /\ saSheet \in SaInitialSheets
  /\ saRun = [ SaIdleState EXCEPT !.pc = "received" ]

\* lines 722-725: the catch of the handler
SaFails(calls, message) ==
  saRun' = [ saRun EXCEPT !.pc = "done", !.calls = calls,
                          !.response = ErrorResponse(500, message) ]

\* where the for-of over cats stands after position cat - 1
SaAfterCategory(cat) == IF cat <= Len(saBody.cats) THEN "search" ELSE "done"

\* lines 714-721
SaOkResponse(totalInserted, byCategory) ==
  [ code |-> 200, status |-> "ok", city |-> Trim(saBody.city),
    total_inserted |-> totalInserted, by_category |-> byCategory ]

\* lines 612-625: the two checks that answer 400, getSheetsClient
SaReceive ==
  /\ saRun.pc = "received"
  /\ IF ~Truthy(saBody.city)
       THEN saRun' = [ saRun EXCEPT !.pc = "done",
                                    !.response = ErrorResponse(400, "Falta 'city'.") ]
     ELSE IF saBody.cats = << >>
       THEN saRun' = [ saRun EXCEPT !.pc = "done",
                                    !.response = ErrorResponse(400, "Envia 'category' o 'categories'.") ]
     ELSE IF ~saBody.configured THEN SaFails(saRun.calls, "Falta GOOGLE_SERVICE_ACCOUNT_JSON")
     ELSE saRun' = [ saRun EXCEPT !.pc = "ensure" ]
  /\ UNCHANGED << saBody, saAnswers, saSheet, notSa >>

\* line 627
SaEnsure ==
  /\ saRun.pc = "ensure"
  /\ saSheet' = SaEnsuredSheet(saSheet)
  /\ saRun' = [ saRun EXCEPT !.pc = "read", !.calls = @ \o SaEnsureCalls(saSheet) ]
  /\ UNCHANGED << saBody, saAnswers, notSa >>

\* line 627: the k-th call of ensureCitySheet throws
SaEnsureFails(k) ==
  /\ saRun.pc = "ensure"
  /\ k <= Len(SaEnsureCalls(saSheet))
  /\ saSheet' = IF ~saSheet.exists /\ k = 3 THEN AddedTab(saSheet) ELSE saSheet
  /\ SaFails(saRun.calls \o SubSeq(SaEnsureCalls(saSheet), 1, k), "e.message")
  /\ UNCHANGED << saBody, saAnswers, notSa >>

\* lines 630-640
SaReadIds ==
  /\ saRun.pc = "read"
  /\ saRun' = [ saRun EXCEPT !.pc = SaAfterCategory(1),
                             !.existing = TrimmedIds(SaPlaceIdColumn(saSheet.rows)),
                             !.calls = Append(@, Call("values.get", "K2:K")) ]
  /\ UNCHANGED << saBody, saAnswers, saSheet, notSa >>

\* line 441: values.get throws; getExistingPlaceIds has no catch
SaReadIdsFails ==
  /\ saRun.pc = "read"
  /\ SaFails(Append(saRun.calls, Call("values.get", "K2:K")), "e.message")
  /\ UNCHANGED << saBody, saAnswers, saSheet, notSa >>

\* the number of results in the answers given so far
RECURSIVE SaFoundIn(_, _)
SaFoundIn(answers, names) ==
  IF names = {} THEN 0
  ELSE LET c == CHOOSE x \in names : TRUE
       IN Len(answers[c].results) + SaFoundIn(answers, names \ { c })

\* lines 643-644: textSearchAllPages returns the results of the category
SaSearch ==
  /\ saRun.pc = "search"
  /\ LET cat == saBody.cats[saRun.cat] IN
       \E results \in ItemLists2 :
         /\ saAnswers[cat].asked => results = saAnswers[cat].results
         /\ ~saAnswers[cat].asked =>
              SaFoundIn(saAnswers, SaCategories) + Len(results) <= MaxCandidates
         /\ saAnswers' = [ saAnswers EXCEPT ![cat] = [ asked |-> TRUE, results |-> results ] ]
         /\ saRun' = [ saRun EXCEPT !.pc = "details",
                                    !.allBase = results,
                                    !.calls = Append(@, Call("textsearch", cat)) ]
  /\ UNCHANGED << saBody, saSheet, notSa >>

\* lines 479, 488-494: textSearchAllPages throws (no key, a rejected request,
\* or a status other than OK and ZERO_RESULTS)
SaSearchFails ==
  /\ saRun.pc = "search"
  /\ SaFails(Append(saRun.calls, Call("textsearch", saBody.cats[saRun.cat])),
             "Places TextSearch: status")
  /\ UNCHANGED << saBody, saAnswers, saSheet, notSa >>

\* lines 646-663: mapWithConcurrency over allBase; every item's details
\* request gives a result or null
SaMapDetails ==
  /\ saRun.pc = "details"
  /\ \E known \in [ 1..Len(saRun.allBase) -> BOOLEAN ] :
       /\ \A k \in 1..Len(saRun.allBase) :
            known[k] => SaDetails(saRun.allBase[k]) \in DetailsChoices(saRun.allBase[k])
       /\ saRun' = [ saRun EXCEPT
            !.pc = "dedupe",
            !.detailed = [ k \in 1..Len(saRun.allBase) |->
                             Candidate(saRun.allBase[k],
                                       IF known[k] THEN SaDetails(saRun.allBase[k])
                                       ELSE SaNoDetails) ],
            !.calls = @ \o [ k \in 1..Len(saRun.allBase) |->
                               Call("details", saRun.allBase[k].place_id.value) ] ]
  /\ UNCHANGED << saBody, saAnswers, saSheet, notSa >>

\* lines 636-637: splitCityCountry of a city without a comma, the timestamp
SaMark(cat) == [ timestamp |-> 1, country |-> EmptyStr, city |-> Trim(saBody.city), cat |-> cat ]

\* lines 668-698 for the category at hand
SaBatch ==
  DedupeBatch(saRun.detailed, 1,
              [ seenBatch |-> {}, existing |-> saRun.existing, rows |-> << >>,
                inserted |-> {}, skippedExisting |-> 0, skippedBatchDup |-> 0 ],
              SaMark(saBody.cats[saRun.cat]))

\* lines 705-711
SaCategoryEntry(cat, detailed, st) ==
  [ category |-> cat, found |-> Len(detailed), inserted |-> Len(st.rows),
    skipped_existing_place_id |-> st.skippedExisting,
    skipped_batch_dups |-> st.skippedBatchDup ]

\* lines 668-721: the batch is deduplicated, its rows appended (one call, when
\* there are rows), the category's entry pushed; after the last category the
\* response is sent
SaInsert ==
  /\ saRun.pc = "dedupe"
  /\ LET st == SaBatch
         cat == saBody.cats[saRun.cat]
         total == saRun.totalInserted + Len(st.rows)
         entries == Append(saRun.byCategory, SaCategoryEntry(cat, saRun.detailed, st))
         next == SaAfterCategory(saRun.cat + 1)
     IN /\ saSheet' = [ saSheet EXCEPT !.rows = @ \o ChunkValues(st.rows) ]
        /\ saRun' = [ saRun EXCEPT
             !.pc = next,
             !.existing = st.existing,
             !.cat = @ + 1,
             !.totalInserted = total,
             !.byCategory = entries,
             !.batches = Append(@, [ allBase |-> saRun.allBase, detailed |-> saRun.detailed,
                                     inserted |-> st.inserted, known |-> saRun.existing ]),
             !.calls = IF st.rows # << >> THEN Append(@, Call("values.append", cat)) ELSE @,
             !.response = IF next = "done" THEN SaOkResponse(total, entries) ELSE @ ]
  /\ UNCHANGED << saBody, saAnswers, notSa >>

\* line 701: the append call of the batch throws
SaInsertFails ==
  /\ saRun.pc = "dedupe"
  /\ SaBatch.rows # << >>
  /\ SaFails(Append(saRun.calls, Call("values.append", saBody.cats[saRun.cat])), "e.message")
  /\ UNCHANGED << saBody, saAnswers, saSheet, notSa >>

SaNext ==
  \/ SaReceive
  \/ SaEnsure
  \/ \E k \in 1..3 : SaEnsureFails(k)
  \/ SaReadIds
  \/ SaReadIdsFails
  \/ SaSearch
  \/ SaSearchFails
  \/ SaMapDetails
  \/ SaInsert
  \/ SaInsertFails

\* ========================================================================
\* appendRowsDedup (src/unnamed/part_005 158-184, src/unnamed/part_002 235-279)
\* and the Sheets helpers it calls
\* ========================================================================
\* at most this many rows are handed to one call
MaxDedupRows == 3

Versions == { "part_002", "part_005" }

\* part_005 39-52 and part_002 29-42: const HEADERS, the same list in both
HEADERS12 ==
  << "timestamp", "country", "city", "category", "name", "phone", "website",
     "lat", "lng", "address", "place_id", "source" >>

\* HEADERS.indexOf("place_id"), counted from 1
PidIndex == CHOOSE n \in 1..Len(HEADERS12) : HEADERS12[n] = "place_id"

\* rr[3], counted from 1
CatIndex == CHOOSE n \in 1..Len(HEADERS12) : HEADERS12[n] = "category"

\* a first row that names the same columns, one of them in upper case
ShoutedHeaders == [ n \in 1..Len(HEADERS12) |-> IF n = PidIndex THEN "PLACE_ID" ELSE HEADERS12[n] ]

\* toLowerCase on the header cells used
LowerWord(w) == IF w = "PLACE_ID" THEN "place_id" ELSE w

\* a row as both versions build it (part_005 279-292, part_002 218-231)
DedupRow(cat, pid) ==
  << 1, << "B" >>, << "L" >>, cat, << "n" >>, NA, NA, EmptyStr, EmptyStr, NA, pid, "Glow Places" >>

\* the place_id cells of the rows handed in: identifiers, a padded one, none
DedupCells == PlaceIds \cup { EmptyStr, << " ", "a" >> }

DedupInputs == UNION { [ 1..n -> { DedupRow("spas", c) : c \in DedupCells } ] : n \in 0..MaxDedupRows }

\* the tab before the call
DedupSheets ==
  { [ exists |-> FALSE, header |-> << >>, rows |-> << >> ],
    [ exists |-> TRUE, header |-> << >>, rows |-> << >> ],
    [ exists |-> TRUE, header |-> OtherHeader, rows |-> << >> ],
    [ exists |-> TRUE, header |-> HEADERS12, rows |-> << DedupRow("old", << "a" >>) >> ],
    [ exists |-> TRUE, header |-> ShoutedHeaders, rows |-> << DedupRow("old", << "a" >>) >> ] }

\* part_005 121-122: the first row already names the headers, in any case
Already5(row0) ==
  /\ Len(row0) >= Len(HEADERS12)
  /\ \A i \in 1..Len(HEADERS12) : LowerWord(row0[i]) = HEADERS12[i]

\* part_005 93-133: ensureSheetAndHeaders
EnsuredSheet5(t) ==
  IF ~t.exists THEN [ exists |-> TRUE, header |-> HEADERS12, rows |-> << >> ]
  ELSE IF Already5(t.header) THEN t
  ELSE [ t EXCEPT !.header = HEADERS12 ]

\* part_002 104-125 with getOrCreateSheetByTitle (67-102): the headers are
\* written when the tab is created or when A1 is not HEADERS[0]
EnsuredSheet2(t) ==
  IF ~t.exists THEN [ exists |-> TRUE, header |-> HEADERS12, rows |-> << >> ]
  ELSE IF t.header = << >> \/ t.header[1] # HEADERS12[1] THEN [ t EXCEPT !.header = HEADERS12 ]
  ELSE t

EnsuredSheetOf(version, t) == IF version = "part_005" THEN EnsuredSheet5(t) ELSE EnsuredSheet2(t)

\* the position of a cell in a row, 0 when it is not there (indexOf + 1)
RECURSIVE IndexFrom(_, _, _)
IndexFrom(row, cell, n) ==
  IF n > Len(row) THEN 0
  ELSE IF row[n] = cell THEN n
  ELSE IndexFrom(row, cell, n + 1)

\* part_005 135-156: loadExistingPlaceIds; the header is found in lower case
\* and the cells are trimmed
Existing5(t) ==
  LET idx == IndexFrom([ n \in 1..Len(t.header) |-> LowerWord(t.header[n]) ], "place_id", 1)
  IN IF t.header = << >> /\ t.rows = << >> THEN {}
     ELSE IF idx = 0 THEN {}
     ELSE { Trim(Cell(t.rows[i], idx)) : i \in { j \in 1..Len(t.rows) : Truthy(Trim(Cell(t.rows[j], idx))) } }

\* part_002 244-259: the header is matched exactly, the cells taken as they are
Existing2(t) ==
  LET idx == IndexFrom(t.header, "place_id", 1)
  IN IF idx = 0 THEN {}
     ELSE { Cell(t.rows[i], idx) : i \in { j \in 1..Len(t.rows) : Truthy(Cell(t.rows[j], idx)) } }

ExistingOf(version, t) == IF version = "part_005" THEN Existing5(t) ELSE Existing2(t)

\* part_005 164-167: rows.filter; existing is not changed while filtering
Passes5(r, existing) ==
  LET pid == Trim(Cell(r, PidIndex)) IN Truthy(pid) /\ pid \notin existing

\* part_002 261-264
Passes2(r, existing) ==
  LET pid == Cell(r, PidIndex) IN Truthy(pid) /\ pid \notin existing

Passes(version, r, existing) ==
  IF version = "part_005" THEN Passes5(r, existing) ELSE Passes2(r, existing)

Filtered(version, rows, existing) == SelectSeq(rows, LAMBDA r : Passes(version, r, existing))

\* what the function returns (part_005 170, 183; part_002 267, 278)
DedupResult(version, rows, filtered) ==
  IF version = "part_005" THEN [ appended |-> Len(filtered) ]
  ELSE [ added |-> Len(filtered), skipped |-> Len(rows) - Len(filtered) ]

DedupIdleState ==
  [ pc |-> "idle",          \* "idle" | "called" | "ensured" | "loaded" | "returned" | "threw"
    existing |-> {},        \* the set read from the tab
    filtered |-> << >>,     \* rows.filter(...)
    result |-> [ appended |-> 0 ] ]

NoSheet == [ exists |-> FALSE, header |-> << >>, rows |-> << >> ]

DedupIdle ==
  /\ dVersion = "part_005"
  /\ dRows = << >>
  /\ dSheet = NoSheet
  /\ dRun = DedupIdleState

\* the function is called on a tab with some rows
DedupInit ==
  /\ dVersion \in Versions
  /\ dRows \in DedupInputs
  /\ dSheet \in DedupSheets
  /\ dRun = [ DedupIdleState EXCEPT !.pc = "called" ]

\* part_002 236-238: nothing to append, nothing is read
DedupNoRows ==
  /\ dRun.pc = "called"
  /\ dVersion = "part_002"
  /\ dRows = << >>
  /\ dRun' = [ dRun EXCEPT !.pc = "returned", !.result = [ added |-> 0, skipped |-> 0 ] ]
  /\ UNCHANGED << dVersion, dRows, dSheet, notDedup >>

\* part_005 160, part_002 241
DedupEnsure ==
  /\ dRun.pc = "called"
  /\ dVersion = "part_002" => dRows # << >>
  /\ dSheet' = EnsuredSheetOf(dVersion, dSheet)
  /\ dRun' = [ dRun EXCEPT !.pc = "ensured" ]
  /\ UNCHANGED << dVersion, dRows, notDedup >>

\* a call of ensureSheetAndHeaders throws: before the tab was added, or after
\* it was added and before its headers were written
DedupEnsureFails ==
  /\ dRun.pc = "called"
  /\ dVersion = "part_002" => dRows # << >>
  /\ \E added \in BOOLEAN :
       dSheet' = IF added /\ ~dSheet.exists THEN AddedTab(dSheet) ELSE dSheet
  /\ dRun' = [ dRun EXCEPT !.pc = "threw" ]
  /\ UNCHANGED << dVersion, dRows, notDedup >>

\* part_005 163, part_002 244-259
DedupLoad ==
  /\ dRun.pc = "ensured"
  /\ dRun' = [ dRun EXCEPT !.pc = "loaded", !.existing = ExistingOf(dVersion, dSheet) ]
  /\ UNCHANGED << dVersion, dRows, dSheet, notDedup >>

\* the values.get of the tab throws
DedupLoadFails ==
  /\ dRun.pc = "ensured"
  /\ dRun' = [ dRun EXCEPT !.pc = "threw" ]
  /\ UNCHANGED << dVersion, dRows, dSheet, notDedup >>

\* part_005 164-183, part_002 261-278: filter, then one append call when rows
\* are left
DedupAppend ==
  /\ dRun.pc = "loaded"
  /\ LET filtered == Filtered(dVersion, dRows, dRun.existing) IN
       /\ dSheet' = [ dSheet EXCEPT !.rows = @ \o filtered ]
       /\ dRun' = [ dRun EXCEPT !.pc = "returned",
                                !.filtered = filtered,
                                !.result = DedupResult(dVersion, dRows, filtered) ]
  /\ UNCHANGED << dVersion, dRows, notDedup >>

\* the values.append call throws
DedupAppendFails ==
  /\ dRun.pc = "loaded"
  /\ Filtered(dVersion, dRows, dRun.existing) # << >>
  /\ dRun' = [ dRun EXCEPT !.pc = "threw",
                           !.filtered = Filtered(dVersion, dRows, dRun.existing) ]
  /\ UNCHANGED << dVersion, dRows, dSheet, notDedup >>

DedupNext ==
  \/ DedupNoRows
  \/ DedupEnsure
  \/ DedupEnsureFails
  \/ DedupLoad
  \/ DedupLoadFails
  \/ DedupAppend
  \/ DedupAppendFails

\* ========================================================================
\* POST /run-city of src/unnamed/part_005 (249-324); it hands its rows to
\* appendRowsDedup above
\* ========================================================================
\* at most this many results in all the search answers of one request
MaxP5Found == 2

\* line 256: the default categories
P5DefaultCategories == << "barberías", "salones de belleza", "spas" >>

P5CategoryNames == { P5DefaultCategories[k] : k \in 1..Len(P5DefaultCategories) }

\* the lists of categories a request names
P5CategoryLists == { << >>, << "spas" >>, << "spas", "barberías" >> }

\* lines 255-257: categories, or the defaults when it is no array or empty
P5Categories(b) ==
  IF b.categories.sent /\ b.categories.value # << >> THEN b.categories.value
  ELSE P5DefaultCategories

\* what a text search returns for one query: results by place_id
P5ResultLists == UNION { [ 1..n -> ResultIds ] : n \in 0..MaxP5Found }

RECURSIVE P5FoundIn(_, _)
P5FoundIn(answers, names) ==
  IF names = {} THEN 0
  ELSE LET c == CHOOSE x \in names : TRUE
       IN Len(answers[c].results) + P5FoundIn(answers, names \ { c })

\* lines 272-293: one row per result that has a place_id
RECURSIVE P5RowsOf(_, _, _)
P5RowsOf(cat, list, k) ==
  IF k > Len(list) THEN << >>
  ELSE IF ~Truthy(Or(list[k], EmptyStr)) THEN P5RowsOf(cat, list, k + 1)
  ELSE << DedupRow(cat, list[k]) >> \o P5RowsOf(cat, list, k + 1)

\* the rows of a list whose category cell is cat (rr[3] === cat)
RowsOfCategory(rows, cat) == SelectSeq(rows, LAMBDA rr : rr[CatIndex] = cat)

\* lines 295-299
P5Entry(cat, rowsToAppend) ==
  [ category |-> cat, found |-> Len(RowsOfCategory(rowsToAppend, cat)), added |-> 0 ]

\* Array.prototype.slice(-n): the last n elements, and all of them for n = 0
\* (slice(-0) is slice(0))
SliceLast(rows, n) ==
  IF n = 0 THEN rows
  ELSE IF n >= Len(rows) THEN rows
  ELSE SubSeq(rows, Len(rows) - n + 1, Len(rows))

\* lines 306-311: added of every entry, counted over rowsToAppend.slice(-appended)
Recounted(perCategory, rowsToAppend, appended) ==
  [ k \in 1..Len(perCategory) |->
      [ perCategory[k] EXCEPT
          !.added = Len(RowsOfCategory(SliceLast(rowsToAppend, appended),
                                       perCategory[k].category)) ] ]

\* lines 313-319
P5OkResponse(appended, perCategory) ==
  [ code |-> 200, status |-> "ok", total_appended |-> appended, per_category |-> perCategory ]

P5IdleState ==
  [ pc |-> "idle",            \* "idle" | "received" | "ensure" | "search" | "call" | "awaiting" | "done"
    cat |-> 1,                \* position of the for-of over categories
    rowsToAppend |-> << >>,   \* line 264
    perCategory |-> << >>,    \* line 263
    response |-> [ code |-> 0 ] ]

P5Idle ==
  /\ p5Body = [ country |-> Missing, city |-> Missing, categories |-> Missing ]
  /\ p5Answers = [ c \in P5CategoryNames |-> [ asked |-> FALSE, results |-> << >> ] ]
  /\ p5Run = P5IdleState

\* a request arrives; the tab is as some earlier requests left it
P5Init ==
  /\ p5Body \in [ country : { Missing, Sent(<< "B" >>) },
                  city : { Missing, Sent(<< "L" >>) },
                  categories : { Missing } \cup { Sent(v) : v \in P5CategoryLists } ]
  /\ p5Answers = [ c \in P5CategoryNames |-> [ asked |-> FALSE, results |-> << >> ] ]
  /\ p5Run = [ P5IdleState EXCEPT !.pc = "received" ]
  /\ dVersion = "part_005"
  /\ dRows = << >>
  /\ dSheet \in DedupSheets
  /\ dRun = DedupIdleState

\* lines 320-323: the catch of the handler
P5Fails ==
  p5Run' = [ p5Run EXCEPT !.pc = "done", !.response = ErrorResponse(500, "e.message") ]

\* where the for-of over categories stands after position cat - 1
P5AfterCategory(cat) == IF cat <= Len(P5Categories(p5Body)) THEN "search" ELSE "call"

\* lines 251-259
P5Receive ==
  /\ p5Run.pc = "received"
  /\ IF ~Truthy(OrDefault(p5Body.country, EmptyStr)) \/ ~Truthy(OrDefault(p5Body.city, EmptyStr))
       THEN p5Run' = [ p5Run EXCEPT !.pc = "done",
                                    !.response = ErrorResponse(400, "Faltan 'country' y/o 'city'.") ]
       ELSE p5Run' = [ p5Run EXCEPT !.pc = "ensure" ]
  /\ UNCHANGED << p5Body, p5Answers, dedupVars, notP5 >>

\* line 260
P5Ensure ==
  /\ p5Run.pc = "ensure"
  /\ dSheet' = EnsuredSheet5(dSheet)
  /\ p5Run' = [ p5Run EXCEPT !.pc = P5AfterCategory(1) ]
  /\ UNCHANGED << p5Body, p5Answers, dVersion, dRows, dRun, notP5 >>

\* line 260: a call of ensureSheetAndHeaders throws
P5EnsureFails ==
  /\ p5Run.pc = "ensure"
  /\ \E added \in BOOLEAN :
       dSheet' = IF added /\ ~dSheet.exists THEN AddedTab(dSheet) ELSE dSheet
  /\ P5Fails
  /\ UNCHANGED << p5Body, p5Answers, dVersion, dRows, dRun, notP5 >>

\* lines 267-300: the search of one category, the details of its results,
\* its rows and its entry
P5Search ==
  /\ p5Run.pc = "search"
  /\ LET cat == P5Categories(p5Body)[p5Run.cat] IN
       \E list \in P5ResultLists :
         /\ p5Answers[cat].asked => list = p5Answers[cat].results
         /\ ~p5Answers[cat].asked =>
              P5FoundIn(p5Answers, P5CategoryNames) + Len(list) <= MaxP5Found
         /\ p5Answers' = [ p5Answers EXCEPT ![cat] = [ asked |-> TRUE, results |-> list ] ]
         /\ LET rows == p5Run.rowsToAppend \o P5RowsOf(cat, list, 1) IN
              p5Run' = [ p5Run EXCEPT !.rowsToAppend = rows,
                                      !.perCategory = Append(@, P5Entry(cat, rows)),
                                      !.cat = @ + 1,
                                      !.pc = P5AfterCategory(p5Run.cat + 1) ]
  /\ UNCHANGED << p5Body, dedupVars, notP5 >>

\* lines 200-201, 221-222: a request of textSearchAll or placeDetails is rejected
P5SearchFails ==
  /\ p5Run.pc = "search"
  /\ P5Fails
  /\ UNCHANGED << p5Body, p5Answers, dedupVars, notP5 >>

\* line 303: appendRowsDedup(SHEET_ID, sheetTitle, rowsToAppend) is called
P5CallDedup ==
  /\ p5Run.pc = "call"
  /\ dRows' = p5Run.rowsToAppend
  /\ dRun' = [ DedupIdleState EXCEPT !.pc = "called" ]
  /\ p5Run' = [ p5Run EXCEPT !.pc = "awaiting" ]
  /\ UNCHANGED << p5Body, p5Answers, dVersion, dSheet, notP5 >>

\* lines 303-319: the call returned; added is recounted, the response sent
P5Respond ==
  /\ p5Run.pc = "awaiting"
  /\ dRun.pc = "returned"
  /\ LET appended == dRun.result.appended
         entries == Recounted(p5Run.perCategory, p5Run.rowsToAppend, appended)
     IN p5Run' = [ p5Run EXCEPT !.pc = "done",
                                !.perCategory = entries,
                                !.response = P5OkResponse(appended, entries) ]
  /\ UNCHANGED << p5Body, p5Answers, dedupVars, notP5 >>

\* line 303: the call threw
P5DedupThrew ==
  /\ p5Run.pc = "awaiting"
  /\ dRun.pc = "threw"
  /\ P5Fails
  /\ UNCHANGED << p5Body, p5Answers, dedupVars, notP5 >>

P5Next ==
  \/ P5Receive
  \/ P5Ensure
  \/ P5EnsureFails
  \/ P5Search
  \/ P5SearchFails
  \/ P5CallDedup
  \/ DedupEnsure
  \/ DedupEnsureFails
  \/ DedupLoad
  \/ DedupLoadFails
  \/ DedupAppend
  \/ DedupAppendFails
  \/ P5Respond
  \/ P5DedupThrew

\* ========================================================================
\* getSheetsClient and POST /sheets/append of src/unnamed/part_003 (176-214)
\* ========================================================================
\* the requests to POST /sheets/append that arrive
MaxAppendRequests == 2

AppendRequests == 1..MaxAppendRequests

\* let sheetsClient = null
NoClient == 0

ClientIdleState ==
  [ pc |-> "idle",      \* "idle" | "authorizing" | "append" | "done"
    sheets |-> NoClient,  \* const sheets = await getSheetsClient()
    code |-> 0 ]          \* the status of the response

ClientIdle ==
  /\ kEnv = [ sheetId |-> FALSE, saJson |-> FALSE ]
  /\ kRows = [ q \in AppendRequests |-> FALSE ]
  /\ sheetsClient = NoClient
  /\ authorizeCalls = 0
  /\ kReq = [ q \in AppendRequests |-> ClientIdleState ]

\* the process has started; sheetsClient is null (line 176)
ClientInit ==
  /\ kEnv \in [ sheetId : BOOLEAN, saJson : BOOLEAN ]
  /\ kRows \in [ AppendRequests -> BOOLEAN ]
  /\ sheetsClient = NoClient
  /\ authorizeCalls = 0
  /\ kReq = [ q \in AppendRequests |-> ClientIdleState ]

\* lines 179-187: getSheetsClient up to its await. The client a request
\* creates is named after the request.
GetClient(q) ==
  IF sheetsClient # NoClient
    THEN [ pc |-> "append", sheets |-> sheetsClient, code |-> 0, authorizes |-> FALSE ]
  ELSE IF ~kEnv.saJson
    THEN [ pc |-> "done", sheets |-> NoClient, code |-> 500, authorizes |-> FALSE ]
  ELSE [ pc |-> "authorizing", sheets |-> NoClient, code |-> 0, authorizes |-> TRUE ]

\* lines 192-200: the request is checked and getSheetsClient is called
ClientReceive(q) ==
  /\ kReq[q].pc = "idle"
  /\ IF ~kRows[q]
       THEN /\ kReq' = [ kReq EXCEPT ![q] = [ pc |-> "done", sheets |-> NoClient, code |-> 400 ] ]
            /\ UNCHANGED authorizeCalls
     ELSE IF ~kEnv.sheetId
       THEN /\ kReq' = [ kReq EXCEPT ![q] = [ pc |-> "done", sheets |-> NoClient, code |-> 500 ] ]
            /\ UNCHANGED authorizeCalls
     ELSE LET g == GetClient(q) IN
            /\ kReq' = [ kReq EXCEPT ![q] = [ pc |-> g.pc, sheets |-> g.sheets, code |-> g.code ] ]
            /\ authorizeCalls' = IF g.authorizes THEN authorizeCalls + 1 ELSE authorizeCalls
  /\ UNCHANGED << kEnv, kRows, sheetsClient, notClient >>

\* lines 187-189: authorize resolves; the client is created, stored and returned
ClientAuthorized(q) ==
  /\ kReq[q].pc = "authorizing"
  /\ sheetsClient' = q
  /\ kReq' = [ kReq EXCEPT ![q].pc = "append", ![q].sheets = q ]
  /\ UNCHANGED << kEnv, kRows, authorizeCalls, notClient >>

\* line 187: authorize rejects; sheetsClient stays as it is (lines 210-213)
ClientAuthorizeFails(q) ==
  /\ kReq[q].pc = "authorizing"
  /\ kReq' = [ kReq EXCEPT ![q].pc = "done", ![q].code = 500 ]
  /\ UNCHANGED << kEnv, kRows, sheetsClient, authorizeCalls, notClient >>

\* lines 201-209
ClientAppends(q) ==
  /\ kReq[q].pc = "append"
  /\ kReq' = [ kReq EXCEPT ![q].pc = "done", ![q].code = 200 ]
  /\ UNCHANGED << kEnv, kRows, sheetsClient, authorizeCalls, notClient >>

\* line 201: values.append throws
ClientAppendFails(q) ==
  /\ kReq[q].pc = "append"
  /\ kReq' = [ kReq EXCEPT ![q].pc = "done", ![q].code = 500 ]
  /\ UNCHANGED << kEnv, kRows, sheetsClient, authorizeCalls, notClient >>

ClientNext ==
  \/ \E q \in AppendRequests : ClientReceive(q)
  \/ \E q \in AppendRequests : ClientAuthorized(q)
  \/ \E q \in AppendRequests : ClientAuthorizeFails(q)
  \/ \E q \in AppendRequests : ClientAppends(q)
  \/ \E q \in AppendRequests : ClientAppendFails(q)

\* ========================================================================
\* columnLetter (src/unnamed/part_001 465-473) and colLetter
\* (src/unnamed/part_005 74-83)
\* ========================================================================
\* the column numbers tried: 0..MaxColumn, past AZ and BA, and those around
\* ZZ (702) and AAA (703)
MaxColumn == 60

ColumnsAroundZZ == 700..705

ColumnInputs == (0..MaxColumn) \cup ColumnsAroundZZ

\* the letters in the order of their char codes 65..90
Alphabet ==
  << "A", "B", "C", "D", "E", "F", "G", "H", "I", "J", "K", "L", "M",
     "N", "O", "P", "Q", "R", "S", "T", "U", "V", "W", "X", "Y", "Z" >>

\* String.fromCharCode(65 + m)
FromCharCode65(m) == Alphabet[m + 1]

\* part_001 467-471: one turn of the while loop; st = [ n, s ]
ColumnLetterTurn(st) ==
  LET m == (st.n - 1) % 26
  IN [ n |-> (st.n - m) \div 26, s |-> << FromCharCode65(m) >> \o st.s ]

\* a loop that divides n itself, as plain base 26 does
ColLetterTurnPlain(st) ==
  LET m == (st.n - 1) % 26
  IN [ n |-> st.n \div 26, s |-> << FromCharCode65(m) >> \o st.s ]

\* part_005 77-81: one turn of the while loop
ColLetterTurn(st) ==
  LET m == (st.n - 1) % 26
  IN [ n |-> (st.n - 1) \div 26, s |-> << FromCharCode65(m) >> \o st.s ]

LetterIdle ==
  /\ lN = 0
  /\ lPc = "idle"
  /\ l1 = [ n |-> 0, s |-> << >> ]
  /\ l5 = [ n |-> 0, s |-> << >> ]

\* both functions are called with the same n; let s = ""
LetterInit ==
  /\ lN \in ColumnInputs
  /\ lPc = "called"
  /\ l1 = [ n |-> lN, s |-> << >> ]
  /\ l5 = [ n |-> lN, s |-> << >> ]

\* a turn of the loop of columnLetter
ColumnLetterStep ==
  /\ lPc = "called"
  /\ l1.n > 0
  /\ l1' = ColumnLetterTurn(l1)
  /\ UNCHANGED << lN, lPc, l5, notLetter >>

\* a turn of the loop of colLetter
ColLetterStep ==
  /\ lPc = "called"
  /\ l5.n > 0
  /\ l5' = ColLetterTurn(l5)
  /\ UNCHANGED << lN, lPc, l1, notLetter >>

\* both loops are over: return s
LettersReturn ==
  /\ lPc = "called"
  /\ l1.n <= 0
  /\ l5.n <= 0
  /\ lPc' = "returned"
  /\ UNCHANGED << lN, l1, l5, notLetter >>

LetterNext ==
  \/ ColumnLetterStep
  \/ ColLetterStep
  \/ LettersReturn

\* the later versions' machines at rest
LaterIdle == DedupIdle /\ P5Idle /\ ClientIdle /\ LetterIdle

HelpersIdle == TitleIdle /\ AppendIdle /\ ChunkIdle /\ SaIdle /\ LaterIdle

SaSpecInit ==
  SaInit /\ SearchIdle /\ MapIdle /\ RunIdle /\ TitleIdle /\ AppendIdle /\ ChunkIdle /\ LaterIdle

SaSpec == SaSpecInit /\ [][SaNext]_vars

ChunkSpecInit == ChunkInit /\ SearchIdle /\ MapIdle /\ RunIdle /\ TitleIdle /\ AppendIdle /\ SaIdle /\ LaterIdle

ChunkSpec == ChunkSpecInit /\ [][ChunkNext]_vars

SearchSpecInit == SearchInit /\ MapIdle /\ RunIdle /\ HelpersIdle

SearchSpec == SearchSpecInit /\ [][SearchNext]_vars

TitleSpecInit == TitleInit /\ SearchIdle /\ MapIdle /\ RunIdle /\ AppendIdle /\ ChunkIdle /\ SaIdle /\ LaterIdle

TitleSpec == TitleSpecInit /\ [][TitleNext]_vars

MapSpecInit == MapInit /\ SearchIdle /\ RunIdle /\ HelpersIdle

MapSpec == MapSpecInit /\ [][MapNext]_vars

\* Every mapper call under way settles, and the event loop runs the
\* continuation of a settled promise.
MapFairSpec ==
  /\ MapSpec
  /\ \A w \in 1..MaxLimit :
       WF_vars(MapperResolves(w) \/ MapperRejects(w))
  /\ WF_vars(SpawnWorkers)
  /\ WF_vars(MapReturns)

\* the machines of src/index.js and part_001 at rest
FirstIdle == SearchIdle /\ MapIdle /\ RunIdle /\ TitleIdle /\ AppendIdle /\ ChunkIdle /\ SaIdle

DedupSpecInit == DedupInit /\ FirstIdle /\ P5Idle /\ ClientIdle /\ LetterIdle

DedupSpec == DedupSpecInit /\ [][DedupNext]_vars

P5SpecInit == P5Init /\ FirstIdle /\ ClientIdle /\ LetterIdle

ClientSpecInit == ClientInit /\ FirstIdle /\ DedupIdle /\ P5Idle /\ LetterIdle

LetterSpecInit == LetterInit /\ FirstIdle /\ DedupIdle /\ P5Idle /\ ClientIdle

LetterSpec == LetterSpecInit /\ [][LetterNext]_vars

ClientSpec == ClientSpecInit /\ [][ClientNext]_vars

P5Spec == P5SpecInit /\ [][P5Next]_vars

RaceSpecInit == RaceInit /\ SearchIdle /\ MapIdle /\ HelpersIdle

RaceSpec == RaceSpecInit /\ [][RaceNext]_vars

RunSpecInit == RunInit /\ SearchIdle /\ MapIdle /\ HelpersIdle

Spec == RunSpecInit /\ [][RunNext]_vars

\* the two endpoints of src/index.js that build rows: in a behaviour either
\* requests to POST /run-city arrive, or one request to POST /sheets/append
RowsSpecInit ==
  \/ RunSpecInit
  \/ AppendInit /\ SearchIdle /\ MapIdle /\ TitleIdle /\ ChunkIdle /\ SaIdle /\ LaterIdle

RowsNext ==
  \/ RunNext
  \/ AppendNext

RowsSpec == RowsSpecInit /\ [][RowsNext]_vars

\* the position of a field in HEADERS
HeaderIndex(name) == CHOOSE n \in 1..Len(HEADERS) : HEADERS[n] = name

\* the place_id of a row
RowPlaceId(row) == row[HeaderIndex("place_id")]

C2_SecondRunAddsNothing ==
  (Answered(1) /\ run[1].response.code = 200 /\ run[2].readOk) =>
    /\ run[2].appendedRows = << >>
    /\ \A k \in 1..Len(run[2].calls) : run[2].calls[k].api # "values.append"
    /\ \A k \in 1..Len(run[2].summary) : run[2].summary[k].added = 0
    /\ (run[2].pc = "done" /\ run[2].response.code = 200) =>
         /\ run[2].response.total_appended = 0
         /\ run[2].response.per_category = run[2].summary
         /\ Len(run[2].summary) = Len(Categories(body))

\* C2 witness: the second run finished ok after the first had appended rows;
\* it found results and added none.
C2_Witness ==
  /\ run[1].pc = "released"
  /\ run[1].response.code = 200
  /\ run[2].pc = "done"
  /\ run[2].response.code = 200
  /\ run[2].readOk
  /\ Len(tab.rows) = 2
  /\ Len(run[2].summary) = 1
  /\ run[2].summary[1].found = 2
  /\ run[2].summary[1].added = 0

\* one category, a column L without cells at the read, a search answer of
\* pairwise distinct non-empty identifiers, and a run that answered ok
EndToEndScenario(r) ==
  /\ run[r].pc = "done"
  /\ run[r].response.code = 200
  /\ Len(Categories(body)) = 1
  /\ run[r].columnRead = << >>
  /\ LET answer == provider[Categories(body)[1]].results IN
       /\ \A i \in 1..Len(answer) : Truthy(answer[i])
       /\ \A i, j \in 1..Len(answer) : i # j => answer[i] # answer[j]

CountryOrCityMissing == ~Truthy(Country) \/ ~Truthy(City)

\* C4: a request whose country or city is missing or empty is answered 400
\* as soon as it is handled, and the run makes no call to the Sheets service
\* or to the Places API: its call log stays empty and the tab is as before.
C4_ValidationNoCalls ==
  \A r \in Runs :
    (CountryOrCityMissing /\ run[r].pc # "idle") =>
      /\ Answered(r)
      /\ run[r].response.code = 400
      /\ run[r].calls = << >>
      /\ tab \in InitialTabs
      /\ \A c \in CategoryNames : ~provider[c].asked

\* C4 witness: every setting is present, the body names a country and
\* categories but no city, and the request was answered.
C4_Witness ==
  /\ env = [ apiKey |-> TRUE, sheetId |-> TRUE, serviceAccount |-> TRUE ]
  /\ body.country = Sent(<< "B" >>)
  /\ body.city = Missing
  /\ body.categories.sent
  /\ run[1].pc = "done"
  /\ run[1].response.code = 400

MapIndices == 0..(Len(mItems) - 1)

Settled(i) == mOutcome[i] \in { "resolved", "rejected" }

\* C5: the array mapWithConcurrency returns has the input's length, and its
\* element i is what mapper(items[i], i) resolved to, whatever the order in
\* which the mapper calls completed.
C5_IndexAligned ==
  mPc = "returned" =>
    /\ ArrayLength(mResults) = Len(mItems)
    /\ \A i \in MapIndices :
         mOutcome[i] = "resolved" => mResults[i] = Mapper(mItems[i + 1], i)

\* C5 witness: three items mapped by two workers, all calls resolved.
C5_Witness ==
  /\ mPc = "returned"
  /\ mItems = << "x", "y", "x" >>
  /\ mLimit = 2
  /\ \A i \in MapIndices : mOutcome[i] = "resolved"

\* C6: a mapper call that rejects is caught by its worker: no worker's
\* promise rejects (so the aggregate call cannot fail), index j of a
\* rejected call holds null, and every index whose call resolved holds the
\* value that call computed.
C6_FailureIsolated ==
  /\ \A w \in DOMAIN mWorkers : mWorkers[w].pc # "failed"
  /\ \A j \in MapIndices :
       /\ mOutcome[j] = "rejected" => mResults[j] = Null
       /\ mOutcome[j] = "resolved" => mResults[j] = Mapper(mItems[j + 1], j)

\* C6 witness: the call returned although the mapper rejected for the
\* middle item; its neighbours resolved.
C6_Witness ==
  /\ mPc = "returned"
  /\ Len(mItems) = 3
  /\ mOutcome[1] = "rejected"
  /\ mOutcome[0] = "resolved"
  /\ mOutcome[2] = "resolved"

\* C7: mapWithConcurrency has returned only if every index has produced a
\* result and no mapper call is pending; and when every mapper call settles,
\* a call that was made does return.
C7_ReturnsAfterAllSettled ==
  /\ [](mPc = "returned" =>
          /\ \A i \in MapIndices : Settled(i) /\ mResults[i] # Hole
          /\ \A w \in DOMAIN mWorkers : mWorkers[w].pc # "await")
  /\ (mPc = "called") ~> (mPc = "returned")

\* C7 witness: the last mapper call is still pending, every other index has
\* its result, and the call has not returned.
C7_Witness ==
  /\ mPc = "awaiting"
  /\ Len(mItems) = 3
  /\ mOutcome[2] = "pending"
  /\ Settled(0)
  /\ Settled(1)
  /\ \E w \in DOMAIN mWorkers : mWorkers[w].pc = "done"

\* The concatenation of the pages' results, in page order.
RECURSIVE ConcatPages(_)
ConcatPages(pages) ==
  IF pages = << >> THEN << >>
  ELSE ConcatPages(SubSeq(pages, 1, Len(pages) - 1)) \o ResultsOrEmpty(pages[Len(pages)])

LastPage == sPages[Len(sPages)]

\* C8: when textSearchAll returns, the provider has served N pages of which
\* the first N-1 carried a continuation token and the last none; exactly N
\* requests were issued (the first with the query, request k+1 with page
\* k's token) and the result is the concatenation of the N pages' results
\* in page order.
C8_PagesConcatenated ==
  sPc = "returned" =>
    LET N == Len(sPages) IN
      /\ N >= 1
      /\ \A k \in 1..(N - 1) : sPages[k].next_page_token # NoToken
      /\ sPages[N].next_page_token = NoToken
      /\ sRequests = N
      /\ Len(sSent) = N
      /\ sSent[1] = NoToken
      /\ \A k \in 2..N : sSent[k] = sPages[k - 1].next_page_token
      /\ sAll = ConcatPages(sPages)

\* C8 witness: a call that returned after three pages with results on more
\* than one of them.
C8_Witness ==
  /\ sPc = "returned"
  /\ Len(sPages) = 3
  /\ ResultsOrEmpty(sPages[1]) = << <<"a">> >>
  /\ ResultsOrEmpty(sPages[2]) = << <<"b">>, <<"a">> >>
  /\ sPages[1].next_page_token # sPages[2].next_page_token

ClaimedFatal(status) == status \notin { "OK", "ZERO_RESULTS", "OVER_QUERY_LIMIT" }

RowPhone(row) == row[HeaderIndex("phone")]

RowWebsite(row) == row[HeaderIndex("website")]

\* C11: when the details request for a place is rejected (the fetch in
\* getPlaceDetails throws), the run is not failed: it answers no error, the
\* row of that place is accumulated with empty phone and website, and the
\* rows accumulated before it stay as they were.
C11_DetailsRejectionDegraded ==
  [][ \A r \in Runs :
        DetailsFails(r) =>
          LET before == run[r].appendedRows
              after == run'[r].appendedRows
          IN /\ run'[r].response.code # 500
             /\ Len(after) = Len(before) + 1
             /\ SubSeq(after, 1, Len(before)) = before
             /\ RowPlaceId(after[Len(after)]) = run[r].results[run[r].res]
             /\ RowPhone(after[Len(after)]) = EmptyStr
             /\ RowWebsite(after[Len(after)]) = EmptyStr ]_vars

\* C12 as stated: whenever ensureSheetAndHeader has returned (the run stands
\* before its read of column L), the tab exists and its first row is HEADERS.
C12_HeaderAlwaysCanonical ==
  \A r \in Runs : run[r].pc = "read" => tab.exists /\ tab.header = HEADERS

\* C12 amended: a successful ensureSheetAndHeader leaves the tab existing with
\* its data rows untouched; the first row is HEADERS when the tab was absent
\* or its first row empty, and a first row that was not empty is left as it
\* was, equal to HEADERS or not.
C12_HeaderWrittenOnlyWhenEmpty ==
  [][ \A r \in Runs :
        Ensure(r) =>
          /\ tab'.exists
          /\ tab'.rows = tab.rows
          /\ (~tab.exists \/ tab.header = << >>) => tab'.header = HEADERS
          /\ (tab.exists /\ tab.header # << >>) => tab'.header = tab.header ]_vars

\* C12 witness: ensureSheetAndHeader returned on a tab whose first row is not
\* HEADERS, and that row is still there.
C12_Witness ==
  \E r \in Runs :
    /\ run[r].pc = "read"
    /\ Len(run[r].calls) = 2
    /\ tab.exists
    /\ tab.header = OtherHeader

\* C13: for every title POST /sheets/append accepts, sanitizeSheetTitle
\* returns a string without any of : \ / ? * [ ] , of at most 90 characters,
\* and not empty.
C13_SanitizedTitleValid ==
  tPc = "sanitized" =>
    /\ \A i \in 1..Len(tOut) : tOut[i] \notin Forbidden
    /\ Len(tOut) <= TitleCap
    /\ tOut # EmptyStr

\* the value POST /run-city holds for the field a header names, for a result
\* with identifier pid found under category at time nowISO, with details det
RunCityField(h, nowISO, category, pid, det) ==
  CASE h = "timestamp" -> nowISO
    [] h = "country" -> Country
    [] h = "city" -> City
    [] h = "query" -> Query(category, City, Country)
    [] h = "category" -> category
    [] h = "name" -> IF det.isNull THEN SearchRecord(pid).name ELSE det.name
    [] h = "phone" -> det.formatted_phone_number
    [] h = "website" -> det.website
    [] h = "lat" -> IF det.isNull THEN SearchRecord(pid).lat ELSE det.lat
    [] h = "lng" -> IF det.isNull THEN SearchRecord(pid).lng ELSE det.lng
    [] h = "address" ->
         IF det.isNull THEN SearchRecord(pid).formatted_address ELSE det.formatted_address
    [] h = "place_id" -> pid
    [] h = "source" -> "Glow Places"

\* row is the row of some result of the request, field by field in the
\* order of HEADERS
AlignedRunCityRow(row, nowISO) ==
  /\ Len(row) = Len(HEADERS)
  /\ \E k \in 1..Len(Categories(body)) : \E pid \in PlaceIds :
       \E det \in { DetailsRecord(pid), NullDetails } :
         \A i \in 1..Len(HEADERS) :
           row[i] = RunCityField(HEADERS[i], nowISO, Categories(body)[k], pid, det)

\* row is the row of the object o, field by field in the order of HEADERS
AlignedObjectRow(row, o) ==
  /\ Len(row) = Len(HEADERS)
  /\ \A i \in 1..Len(HEADERS) :
       row[i] = IF HEADERS[i] \in DOMAIN o THEN o[HEADERS[i]] ELSE EmptyStr

\* C14: every row POST /run-city accumulates for its append, and every row
\* POST /sheets/append builds from an object, has Len(HEADERS) entries, the
\* entry at position i being the value of the field HEADERS[i] names; the
\* place_id stands at the position of "place_id" in HEADERS.
C14_RowsAlignedWithHeaders ==
  /\ \A r \in Runs : \A k \in 1..Len(run[r].appendedRows) :
       AlignedRunCityRow(run[r].appendedRows[k], run[r].nowISO)
  /\ aBody.rows.kind = "objects" =>
       \A k \in 1..Len(aRun.values) :
         \E j \in 1..Len(aBody.rows.objects) :
           /\ AlignedObjectRow(aRun.values[k], aBody.rows.objects[j])
           /\ "place_id" \in DOMAIN aBody.rows.objects[j]
           /\ RowPlaceId(aRun.values[k]) = aBody.rows.objects[j].place_id

\* C14 witness (POST /run-city): a run appended the row of a result whose
\* details carried a phone and a website.
C14_Witness ==
  \E r \in Runs :
    /\ run[r].pc = "done"
    /\ run[r].response.code = 200
    /\ Len(run[r].appendedRows) = 1
    /\ RowPhone(run[r].appendedRows[1]) = << "7" >>
    /\ RowWebsite(run[r].appendedRows[1]) = << "w" >>
    /\ tab.rows # << >>
    /\ tab.rows[Len(tab.rows)] = run[r].appendedRows[1]

\* POST /sheets/append built and appended the row of an object without a
\* phone key and with a place_id that carries a leading space.
C14_ObjectRowBuilt ==
  /\ aRun.pc = "done"
  /\ aRun.response.code = 200
  /\ aBody.rows.kind = "objects"
  /\ Len(aRun.values) = 1
  /\ RowPhone(aRun.values[1]) = EmptyStr
  /\ RowPlaceId(aRun.values[1]) = << " ", "a" >>
  /\ aRun.values[1][HeaderIndex("website")] = << "=", "website" >>

\* ceil(n / d)
CeilDiv(n, d) == (n + d - 1) \div d

\* the rows of the calls made so far, one after another
RECURSIVE ConcatCalls(_, _)
ConcatCalls(calls, k) == IF k = 0 THEN << >> ELSE ConcatCalls(calls, k - 1) \o calls[k]

\* C15: when appendRowsToSheet returns for n rows it has issued ceil(n/300)
\* append calls, each of at most 300 rows; the calls' rows one after another
\* are the input rows in input order, each with the value of SHEET_HEADERS[j]
\* (or "" where the object lacks it) at position j; for n = 0 there is no
\* call and no error.
C15_ChunkedAppend ==
  LET n == Len(cRows)
      sent == ConcatCalls(cCalls, Len(cCalls))
  IN /\ cPc = "returned" =>
          /\ Len(cCalls) = CeilDiv(n, SHEETS_APPEND_CHUNK)
          /\ \A k \in 1..Len(cCalls) : Len(cCalls[k]) <= SHEETS_APPEND_CHUNK
          /\ Len(sent) = n
          /\ \A k \in 1..n :
               /\ Len(sent[k]) = Len(SHEET_HEADERS)
               /\ \A j \in 1..Len(SHEET_HEADERS) :
                    sent[k][j] = IF SHEET_HEADERS[j] \in DOMAIN cRows[k]
                                   THEN cRows[k][SHEET_HEADERS[j]] ELSE EmptyStr
     /\ (cPc # "idle" /\ n = 0) => cCalls = << >> /\ cPc # "threw"

\* C15 witness: 601 rows, some without a phone, went out in three calls of
\* 300, 300 and 1 rows.
C15_Witness ==
  /\ cPc = "returned"
  /\ Len(cRows) = 2 * SHEETS_APPEND_CHUNK + 1
  /\ "phone" \notin DOMAIN cRows[2]
  /\ Len(cCalls) = 3
  /\ Len(cCalls[1]) = SHEETS_APPEND_CHUNK
  /\ Len(cCalls[2]) = SHEETS_APPEND_CHUNK
  /\ Len(cCalls[3]) = 1

\* C16: when the search of a later category fails after rows of earlier
\* categories were appended, the response reports what was persisted: it
\* carries the entries of the categories that succeeded and the number of
\* rows inserted.
C16_PartialRunReported ==
  ( /\ saRun.pc = "done"
    /\ saRun.response.code = 500
    /\ saRun.calls # << >>
    /\ saRun.calls[Len(saRun.calls)].api = "textsearch"
    /\ saRun.totalInserted > 0 ) =>
      /\ "by_category" \in DOMAIN saRun.response
      /\ saRun.response.by_category = saRun.byCategory
      /\ "total_inserted" \in DOMAIN saRun.response
      /\ saRun.response.total_inserted = saRun.totalInserted

\* a candidate whose identifier is empty (line 675)
EmptyId(cand) == ~Truthy(CandidatePid(cand))

\* name and address are identical once normalized: lower case, no accents,
\* runs of white space collapsed, trimmed
SameNameAddress(p, q) ==
  /\ normalizeKey(p.name) = normalizeKey(q.name)
  /\ normalizeKey(p.address) = normalizeKey(q.address)

C17_DifferentIdsInserted ==
  /\ saRun.pc = "done"
  /\ saRun.response.code = 200
  /\ Len(saRun.batches) = 1
  /\ LET d == saRun.batches[1].detailed IN
       /\ Len(d) = 2
       /\ CandidatePid(d[1]) = << "a" >>
       /\ CandidatePid(d[2]) = << "b" >>
       /\ SameNameAddress(d[1], d[2])
       /\ saRun.batches[1].inserted = { 1, 2 }

\* the mapper calls under way
InFlight == { i \in MapIndices : mOutcome[i] = "pending" }

\* C18: once mapWithConcurrency has created its workers there are exactly
\* min(limit, items.length) of them, and at no time are more than
\* min(limit, items.length) mapper calls under way.
C18_WorkersBounded ==
  /\ mPc \in { "awaiting", "returned" } =>
       /\ Len(mWorkers) = Min(mLimit, Len(mItems))
       /\ Cardinality({ w \in DOMAIN mWorkers : mWorkers[w].pc = "await" }) = Cardinality(InFlight)
  /\ mPc # "idle" =>
       /\ Cardinality(InFlight) <= mLimit
       /\ Cardinality(InFlight) <= Len(mItems)

\* C18 witness: three items under limit 2: two calls are under way while the
\* third item waits for a worker.
C18_Witness ==
  /\ mPc = "awaiting"
  /\ Len(mItems) = 3
  /\ mLimit = 2
  /\ Len(mWorkers) = 2
  /\ Cardinality(InFlight) = 2
  /\ mOutcome[2] = "none"

\* a limit above the number of items: as many workers as items.
C18_FewerItemsThanLimit ==
  /\ mPc = "awaiting"
  /\ Len(mItems) = 1
  /\ mLimit = 3
  /\ Len(mWorkers) = 1
  /\ Cardinality(InFlight) = 1

\* C19: the pages of one call are strictly sequential: at most one request
\* is without its response; when request N+1 has been issued, N responses
\* were received and N delays have elapsed, and request N+1 carries the
\* continuation token of page N.
C19_PagesSequential ==
  /\ sRequests - Len(sPages) \in { 0, 1 }
  /\ sPc = "inflight" => sRequests = Len(sPages) + 1
  /\ Len(sSent) = sRequests
  /\ sRequests >= 1 => sSleeps >= sRequests - 1
  /\ sSleeps <= Len(sPages)
  /\ \A k \in 2..Len(sSent) : sSent[k] = sPages[k - 1].next_page_token /\ sSent[k] # NoToken

\* C19 witness: the second request is under way; one page was received and
\* one delay has elapsed.
C19_Witness ==
  /\ sPc = "inflight"
  /\ sRequests = 2
  /\ Len(sPages) = 1
  /\ sSleeps = 1
  /\ sSent[2] = sPages[1].next_page_token

\* the calls of ensureSheetAndHeader, and the read of column L
IsEnsureCall(c) ==
  \/ c.api \in { "spreadsheets.get", "spreadsheets.batchUpdate", "values.update" }
  \/ c.api = "values.get" /\ c.arg = "A1:M1"

IsReadCall(c) == c.api = "values.get" /\ c.arg = "L2:L"

\* the positions of a call log that satisfy a test
Positions(calls, Test(_)) == { k \in 1..Len(calls) : Test(calls[k]) }

IsSearchCall(c) == c.api = "textsearch"

IsAppendCall(c) == c.api = "values.append"

IsPlacesOrAppendCall(c) == c.api \in { "textsearch", "details", "values.append" }

RECURSIVE SumAdded(_)
SumAdded(summary) ==
  IF summary = << >> THEN 0 ELSE summary[1].added + SumAdded(Tail(summary))

\* C20: in every run that passed validation the calls are ordered: the calls
\* of ensureSheetAndHeader come before the read of column L; the column is
\* read at most once (exactly once in a run that ends ok), before the first
\* search; the searches follow the request's categories in order; there is at
\* most one append call, it is the last call, it comes after every category
\* was searched, and it carries the rows accumulated over all categories.
C20_CallsOrdered ==
  \A r \in Runs :
    LET cs == run[r].calls
        reads == Positions(cs, IsReadCall)
        searches == SelectSeq(cs, IsSearchCall)
        appends == Positions(cs, IsAppendCall)
    IN /\ Cardinality(reads) <= 1
       /\ \A k \in Positions(cs, IsEnsureCall) : \A j \in reads : k < j
       /\ \A j \in reads : Positions(cs, IsEnsureCall) # {}
       /\ \A k \in Positions(cs, IsPlacesOrAppendCall) : \E j \in reads : j < k
       /\ Len(searches) <= Len(Categories(body))
       /\ \A k \in 1..Len(searches) : searches[k].arg = Categories(body)[k]
       /\ Cardinality(appends) <= 1
       /\ \A k \in appends : k = Len(cs) /\ Len(searches) = Len(Categories(body))
       /\ (run[r].pc = "done" /\ run[r].response.code = 200) =>
            /\ Cardinality(reads) = 1
            /\ Len(searches) = Len(Categories(body))
            /\ Len(run[r].summary) = Len(Categories(body))
            /\ SumAdded(run[r].summary) = Len(run[r].appendedRows)
            /\ (appends # {}) <=> (run[r].appendedRows # << >>)
            /\ Len(tab.rows) >= Len(run[r].appendedRows)
            /\ SubSeq(tab.rows, Len(tab.rows) - Len(run[r].appendedRows) + 1, Len(tab.rows))
                 = run[r].appendedRows

\* C20 witness: a run over two categories accepted one result in each and
\* sent both rows in its one append call, the last of its calls.
C20_Witness ==
  \E r \in Runs :
    /\ run[r].pc = "done"
    /\ run[r].response.code = 200
    /\ Len(Categories(body)) = 2
    /\ Len(run[r].summary) = 2
    /\ run[r].summary[1].added = 1
    /\ run[r].summary[2].added = 1
    /\ Len(run[r].appendedRows) = 2
    /\ Cardinality(Positions(run[r].calls, IsAppendCall)) = 1
    /\ IsAppendCall(run[r].calls[Len(run[r].calls)])

\* the place_id of a row of the later versions (eleven columns in)
RowPid12(row) == Cell(row, PidIndex)

\* C21: the rows appendRowsDedup appends have pairwise distinct place_ids:
\* of the rows of the input that carry the same place_id only the first is
\* appended.
C21_InputDuplicatesDropped ==
  dRun.pc = "returned" =>
    /\ \A i, j \in 1..Len(dRun.filtered) :
         i # j => RowPid12(dRun.filtered[i]) # RowPid12(dRun.filtered[j])
    /\ \A i, j \in 1..Len(dRows) :
         (i < j /\ RowPid12(dRows[i]) = RowPid12(dRows[j])) =>
           Len(SelectSeq(dRun.filtered, LAMBDA r : RowPid12(r) = RowPid12(dRows[j]))) <= 1

\* the function of the given file returned after appending two rows with the
\* same place_id that were both in its input
DuplicatesAppendedBy(version) ==
  /\ dVersion = version
  /\ dRun.pc = "returned"
  /\ \E i, j \in 1..Len(dRun.filtered) :
       i # j /\ RowPid12(dRun.filtered[i]) = RowPid12(dRun.filtered[j])
  /\ Len(dSheet.rows) >= 2
  /\ RowPid12(dSheet.rows[Len(dSheet.rows)]) = RowPid12(dSheet.rows[Len(dSheet.rows) - 1])

C21_DuplicatesAppendedPart005 == DuplicatesAppendedBy("part_005")

C21_DuplicatesAppendedPart002 == DuplicatesAppendedBy("part_002")

\* the inserted candidates of a request: (category position, position in detailed)
InsertedAt ==
  UNION { { << b, k >> : k \in saRun.batches[b].inserted } : b \in 1..Len(saRun.batches) }

CandidateAt(bk) == saRun.batches[bk[1]].detailed[bk[2]]

NoIdentifier(item) == ~item.place_id.has \/ ~Truthy(item.place_id.value)

\* C23: of the results of one category that have no provider identifier, two
\* with different normalized name or address are both inserted.
C23_NoIdentifierKeyedByNameAddress ==
  \A b \in 1..Len(saRun.batches) :
    LET base == saRun.batches[b].allBase
        d == saRun.batches[b].detailed
    IN \A j, k \in 1..Len(base) :
         ( /\ j < k
           /\ NoIdentifier(base[j])
           /\ NoIdentifier(base[k])
           /\ ~SameNameAddress(d[j], d[k]) )
         => j \in saRun.batches[b].inserted /\ k \in saRun.batches[b].inserted

\* one category returned two results whose place_id field is absent, with
\* different names and addresses; both candidates carry "N/A" as place_id,
\* the first was inserted and the second skipped as already in the sheet
C23_AbsentIdsCollide ==
  /\ saRun.pc = "done"
  /\ saRun.response.code = 200
  /\ Len(saRun.batches) = 1
  /\ LET base == saRun.batches[1].allBase
         d == saRun.batches[1].detailed
     IN /\ Len(base) = 2
        /\ ~base[1].place_id.has /\ ~base[2].place_id.has
        /\ ~SameNameAddress(d[1], d[2])
        /\ d[1].place_id = NA /\ d[2].place_id = NA
        /\ saRun.batches[1].inserted = { 1 }
  /\ saRun.response.by_category[1].skipped_existing_place_id = 1

\* one category returned two results with an empty place_id and different
\* addresses; both were inserted
C23_EmptyIdsBothInserted ==
  /\ saRun.pc = "done"
  /\ saRun.response.code = 200
  /\ Len(saRun.batches) = 1
  /\ LET base == saRun.batches[1].allBase
         d == saRun.batches[1].detailed
     IN /\ Len(base) = 2
        /\ base[1].place_id = Id(EmptyStr) /\ base[2].place_id = Id(EmptyStr)
        /\ ~SameNameAddress(d[1], d[2])
        /\ saRun.batches[1].inserted = { 1, 2 }

\* the tab holds two rows with the same place_id
TabHasDuplicate ==
  \E i, j \in 1..Len(tab.rows) :
    /\ i < j
    /\ Truthy(Trim(RowPlaceId(tab.rows[i])))
    /\ Trim(RowPlaceId(tab.rows[i])) = Trim(RowPlaceId(tab.rows[j]))

\* some request arrived while another one was in flight
Overlapped == \E r \in Runs : run[r].overlapping

\* the read of column L of request r threw (and was answered by an empty set)
ReadFailed(r) ==
  /\ ~run[r].readOk
  /\ \E k \in 1..Len(run[r].calls) :
       run[r].calls[k].api = "values.get" /\ run[r].calls[k].arg = "L2:L"

C24_SerialDuplicate ==
  /\ ~Overlapped
  /\ TabHasDuplicate
  /\ ReadFailed(2)
  /\ run[1].readOk
  /\ run[2].pc = "done"
  /\ run[2].response.code = 200

\* the request of part_005 was answered ok
P5Answered == p5Run.pc = "done" /\ p5Run.response.code = 200

\* C25: in every run of POST /run-city of part_005 that answers ok, each
\* category's added is the number of that category's rows that passed the
\* dedupe filter (the rows appended), and the sum of added over the
\* categories is total_appended.
C25_AddedCountsAppendedRows ==
  P5Answered =>
    /\ \A k \in 1..Len(p5Run.response.per_category) :
         p5Run.response.per_category[k].added =
           Len(RowsOfCategory(dRun.filtered, p5Run.response.per_category[k].category))
    /\ SumAdded(p5Run.response.per_category) = p5Run.response.total_appended

\* every row of the run was a duplicate: nothing was appended, and the one
\* category reports both of its rows as added
C25_AllDuplicatesReportedAdded ==
  /\ P5Answered
  /\ Len(p5Run.rowsToAppend) = 2
  /\ dRun.filtered = << >>
  /\ p5Run.response.total_appended = 0
  /\ Len(p5Run.response.per_category) = 1
  /\ p5Run.response.per_category[1].added = 2

\* the row appended belongs to the first category and the second category
\* is the one that reports it
C25_AddedGivenToLastCategory ==
  /\ P5Answered
  /\ Len(p5Run.response.per_category) = 2
  /\ p5Run.response.total_appended = 1
  /\ dRun.filtered[1][CatIndex] = p5Run.response.per_category[1].category
  /\ p5Run.response.per_category[1].added = 0
  /\ p5Run.response.per_category[2].added = 1

\* the number of the column readExistingPlaceIds reads
SeedColumn == ColumnNumber(PLACE_ID_COL_A1)

\* the place_ids run r asked details for, in order: one per row it built
DetailsAsked(r) ==
  SelectSeq(run[r].calls, LAMBDA c : c.api = "details")

\* C26: the column readExistingPlaceIds reads is the column of place_id: its
\* number is the position of "place_id" in HEADERS; every row POST /run-city
\* builds carries its pid in that column, and so does every row POST
\* /sheets/append builds from an object; after a run that answered ok, the
\* ids of its rows are among the ids read from that column of the tab.
C26_SeedColumnIsPlaceIdColumn ==
  /\ SeedColumn = HeaderIndex("place_id")
  /\ \A r \in Runs :
       /\ run[r].pc # "done" => Len(DetailsAsked(r)) = Len(run[r].appendedRows)
       /\ \A k \in 1..Len(run[r].appendedRows) :
            /\ k <= Len(DetailsAsked(r))
            /\ Cell(run[r].appendedRows[k], SeedColumn) = DetailsAsked(r)[k].arg
       /\ (run[r].pc = "done" /\ run[r].response.code = 200) =>
            \A k \in 1..Len(run[r].appendedRows) :
              DetailsAsked(r)[k].arg \in TrimmedIds(PlaceIdColumn(tab.rows))
  /\ aBody.rows.kind = "objects" =>
       /\ \A i \in 1..Len(aRun.values) :
            \E k \in 1..Len(aBody.rows.objects) :
              /\ Cell(aRun.values[i], SeedColumn) = FieldOr(aBody.rows.objects[k], "place_id")
              /\ Truthy(Trim(Cell(aRun.values[i], SeedColumn)))
       /\ (aRun.pc = "done" /\ aRun.response.code = 200) =>
            \A i \in 1..Len(aRun.values) :
              Trim(Cell(aRun.values[i], SeedColumn)) \in TrimmedIds(PlaceIdColumn(tab.rows))

\* C26 witness: the first run created the tab and appended the places a and
\* b; the second run read exactly these two ids from column L and added
\* nothing.
C26_Witness ==
  /\ run[1].pc = "released"
  /\ run[2].pc = "done"
  /\ run[2].response.code = 200
  /\ run[2].readOk
  /\ run[2].columnRead = << << "a" >>, << "b" >> >>
  /\ run[2].existingIds = { << "a" >>, << "b" >> }
  /\ Len(tab.rows) = 2
  /\ Cell(tab.rows[1], SeedColumn) = << "a" >>
  /\ Cell(tab.rows[2], SeedColumn) = << "b" >>
  /\ run[2].response.total_appended = 0

\* a request to POST /sheets/append sent one object with place_id " a"; its
\* row was appended with " a" in column L
C26_ObjectRowInSeedColumn ==
  /\ aRun.pc = "done"
  /\ aRun.response.code = 200
  /\ aBody.rows.kind = "objects"
  /\ Len(aRun.values) = 1
  /\ Cell(aRun.values[1], SeedColumn) = << " ", "a" >>
  /\ Cell(tab.rows[Len(tab.rows)], SeedColumn) = << " ", "a" >>

\* run r ended in the handler's catch on a search or details call
FailedInCategory(r) ==
  /\ run[r].pc = "done"
  /\ run[r].response.code = 500
  /\ run[r].calls # << >>
  /\ run[r].calls[Len(run[r].calls)].api \in { "textsearch", "details" }

\* C27: a run of POST /run-city in which a search or details call failed
\* answers with an error, has issued no append call, and leaves the data rows
\* of the tab as they were when it read them, whatever rows it had built for
\* the categories before the failure.
C27_FailedRunAppendsNothing ==
  \A r \in Runs :
    FailedInCategory(r) =>
      /\ "error" \in DOMAIN run[r].response
      /\ \A k \in 1..Len(run[r].calls) : run[r].calls[k].api # "values.append"
      /\ Len(tab.rows) = Len(run[r].columnRead)
      /\ PlaceIdColumn(tab.rows) = run[r].columnRead

\* C27 witness: the run built a row for the first category, the search of the
\* second category failed, and the tab has no data row.
C27_Witness ==
  /\ FailedInCategory(1)
  /\ Len(Categories(body)) = 2
  /\ Len(run[1].summary) = 1
  /\ run[1].summary[1].added = 1
  /\ Len(run[1].appendedRows) = 1
  /\ run[1].calls[Len(run[1].calls)].api = "textsearch"
  /\ run[1].columnRead = << >>
  /\ tab.exists
  /\ tab.rows = << >>

\* the workers that hold an index and await its mapper call
Awaiting == { w \in DOMAIN mWorkers : mWorkers[w].pc = "await" }

\* C28: in mapWithConcurrency the indices claimed are exactly those below the
\* cursor, the mapper was invoked exactly once for each of them and never for
\* another, no two workers hold the same index, and when the call returns the
\* mapper was invoked exactly once for every index 0..items.length-1.
C28_EachIndexOnce ==
  mPc # "idle" =>
    /\ mIdx <= Len(mItems)
    /\ \A i \in MapIndices : mCalls[i] = (IF i < mIdx THEN 1 ELSE 0)
    /\ \A v, w \in Awaiting : v # w => mWorkers[v].myIndex # mWorkers[w].myIndex
    /\ \A w \in Awaiting : mWorkers[w].myIndex < mIdx /\ mOutcome[mWorkers[w].myIndex] = "pending"
    /\ mPc = "returned" =>
         \A i \in MapIndices : mCalls[i] = 1 /\ mOutcome[i] \in { "resolved", "rejected" }

\* C28 witness: three items and two workers; the call returned, the mapper
\* was invoked once per index, and the worker that took index 1 also took
\* index 2 (the call for index 0 was still awaited when it asked for more).
C28_Witness ==
  /\ mPc = "returned"
  /\ Len(mItems) = 3
  /\ mLimit = 2
  /\ \A i \in MapIndices : mCalls[i] = 1
  /\ mWorkers[1].myIndex = 0
  /\ mWorkers[2].myIndex = 2
  /\ mOutcome[1] = "rejected"

\* the requests that were handed a client by getSheetsClient
Served == { q \in AppendRequests : kReq[q].sheets # NoClient }

\* C29: authorize is called at most once in the life of the process and
\* every request that gets a client gets the same one, however the requests
\* to POST /sheets/append interleave.
C29_AuthorizedAtMostOnce ==
  /\ authorizeCalls <= 1
  /\ \A p, q \in Served : kReq[p].sheets = kReq[q].sheets

\* two requests arrived before any authorization had completed: authorize was
\* called twice, each request appended through a client of its own, and the
\* one stored last is the one kept
C29_TwoClients ==
  /\ authorizeCalls = 2
  /\ kReq[1].pc = "done" /\ kReq[1].code = 200
  /\ kReq[2].pc = "done" /\ kReq[2].code = 200
  /\ kReq[1].sheets # kReq[2].sheets
  /\ sheetsClient \in { kReq[1].sheets, kReq[2].sheets }

\* the second request arrived after the first had stored its client: it was
\* handed that client and authorize was called once
C29_ClientReused ==
  /\ authorizeCalls = 1
  /\ kReq[1].pc = "done" /\ kReq[1].code = 200
  /\ kReq[2].pc = "done" /\ kReq[2].code = 200
  /\ kReq[1].sheets = kReq[2].sheets
  /\ sheetsClient = kReq[1].sheets

\* ------------------------------------------------------------------------
\* the value of a letter: A is 1, ..., Z is 26
LetterValue(c) == CHOOSE i \in 1..26 : Alphabet[i] = c

\* the number a column name stands for in bijective base 26: the digits are
\* 1..26 and there is no zero
RECURSIVE NameValue(_)
NameValue(s) ==
  IF s = << >> THEN 0
  ELSE 26 * NameValue(SubSeq(s, 1, Len(s) - 1)) + LetterValue(s[Len(s)])

\* the names the claim lists
NamedColumns ==
  { << 1, << "A" >> >>, << 26, << "Z" >> >>, << 27, << "A", "A" >> >>,
    << 52, << "A", "Z" >> >>, << 53, << "B", "A" >> >> }

LettersReturned == lPc = "returned"

\* C30: columnLetter and colLetter return the same string for every n >= 1,
\* the string is the bijective base-26 column name of n (1 -> A, 26 -> Z,
\* 27 -> AA, 52 -> AZ, 53 -> BA), and for n = 0 both return "".
C30_LettersAgreeAndNameColumn ==
  LettersReturned =>
    /\ l1.s = l5.s
    /\ \A i \in 1..Len(l5.s) : \E k \in 1..26 : Alphabet[k] = l5.s[i]
    /\ NameValue(l1.s) = lN
    /\ lN = 0 => l1.s = << >> /\ l5.s = << >>
    /\ \A e \in NamedColumns : lN = e[1] => l1.s = e[2] /\ l5.s = e[2]

\* both returned BA for 53
C30_Witness ==
  /\ LettersReturned
  /\ lN = 53
  /\ l1.s = << "B", "A" >>
  /\ l5.s = << "B", "A" >>

\* both returned "" for 0
C30_ZeroIsEmpty ==
  /\ LettersReturned
  /\ lN = 0
  /\ l1.s = << >>
  /\ l5.s = << >>

====
